---- MODULE Spec2Model ----
(***************************************************************************)
(* State-machine model of the dsp-core synthesis graph                     *)
(* (src/src/audio/dsp-core/src/lib.rs): the voice pool DspGraph, its       *)
(* voices and their engine, cavitation and biological generators.          *)
(*                                                                         *)
(* Numbers.  An f32 is an integer count of 1/Scale (fixed point, products  *)
(* and quotients truncated toward zero), plus the three special values     *)
(* NaN, PosInf and NegInf with the IEEE rules the code relies on           *)
(* (f32::max and f32::min return the operand that is not NaN, every        *)
(* comparison with NaN is false).  Envelope levels are kept in the finer   *)
(* unit 1/EnvScale so that the code's 0.0001 thresholds are representable. *)
(* A u32 is a pair <<hi, lo>> of 16-bit halves.                            *)
(***************************************************************************)
EXTENDS Integers, Sequences, FiniteSets, TLC

\* ------------------------------------------------------------------ f32
Scale == 1000
EnvScale == 100000
FiniteMax == 500000000
PosInf == 2000000000
NegInf == -2000000000
NaN == -2147483647

IsNaN(x) == x = NaN
IsInf(x) == x = PosInf \/ x = NegInf
IsFinite(x) == ~IsNaN(x) /\ ~IsInf(x)

Abs(x) == IF x < 0 THEN -x ELSE x
Sgn(x) == IF x < 0 THEN -1 ELSE IF x > 0 THEN 1 ELSE 0

\* a result beyond the finite range overflows to an infinity
Sat(x) == IF x > FiniteMax THEN PosInf ELSE IF x < -FiniteMax THEN NegInf ELSE x

FNeg(a) == IF IsNaN(a) THEN NaN ELSE -a

FAdd(a, b) ==
    IF IsNaN(a) \/ IsNaN(b) THEN NaN
    ELSE IF IsInf(a) /\ IsInf(b) THEN (IF a = b THEN a ELSE NaN)
    ELSE IF IsInf(a) THEN a
    ELSE IF IsInf(b) THEN b
    ELSE Sat(a + b)

FSub(a, b) == FAdd(a, FNeg(b))

\* |a| * |b| / Scale for finite magnitudes, without overflowing the
\* intermediate product
MulMag(a, b) ==
    LET ah == a \div Scale
        al == a % Scale
        bh == b \div Scale
        bl == b % Scale
    IN  IF bh > 0 /\ ah > (FiniteMax \div Scale) \div bh
        THEN PosInf
        ELSE Sat(ah * bh * Scale + ah * bl + al * bh + (al * bl) \div Scale)

FMul(a, b) ==
    IF IsNaN(a) \/ IsNaN(b) THEN NaN
    ELSE IF IsInf(a) \/ IsInf(b)
         THEN (IF a = 0 \/ b = 0 THEN NaN
               ELSE IF Sgn(a) * Sgn(b) > 0 THEN PosInf ELSE NegInf)
    ELSE LET m == MulMag(Abs(a), Abs(b))
         IN  IF Sgn(a) * Sgn(b) < 0 THEN -m ELSE m

\* |a| / |b| * Scale for finite magnitudes, b > 0
DivMag(a, b) ==
    LET q == a \div b
        r == a % b
    IN  IF q > FiniteMax \div Scale
        THEN PosInf
        ELSE Sat((q * Scale) + (IF r > FiniteMax \div Scale
                                THEN r \div (b \div Scale)
                                ELSE (r * Scale) \div b))

FDiv(a, b) ==
    IF IsNaN(a) \/ IsNaN(b) THEN NaN
    ELSE IF IsInf(a) THEN (IF IsInf(b) THEN NaN
                           ELSE IF (a > 0) = (b >= 0) THEN PosInf ELSE NegInf)
    ELSE IF IsInf(b) THEN 0
    ELSE IF b = 0 THEN (IF a = 0 THEN NaN ELSE IF a > 0 THEN PosInf ELSE NegInf)
    ELSE LET m == DivMag(Abs(a), Abs(b))
         IN  IF Sgn(a) * Sgn(b) < 0 THEN -m ELSE m

\* comparisons: false as soon as an operand is NaN
FLt(a, b) == ~IsNaN(a) /\ ~IsNaN(b) /\ a < b
FLe(a, b) == ~IsNaN(a) /\ ~IsNaN(b) /\ a <= b
FGe(a, b) == ~IsNaN(a) /\ ~IsNaN(b) /\ a >= b

\* f32::max and f32::min: the other operand when one is NaN
FMax(a, b) == IF IsNaN(a) THEN b ELSE IF IsNaN(b) THEN a ELSE IF a >= b THEN a ELSE b
FMin(a, b) == IF IsNaN(a) THEN b ELSE IF IsNaN(b) THEN a ELSE IF a <= b THEN a ELSE b

\* f32::round: to the nearest integer, halves away from zero
FRound(a) ==
    IF ~IsFinite(a) THEN a
    ELSE IF a >= 0 THEN ((a + Scale \div 2) \div Scale) * Scale
    ELSE -(((-a + Scale \div 2) \div Scale) * Scale)

\* `x as u32` for a value the caller keeps small: NaN and negatives give 0,
\* the fraction is dropped
AsU32(a) ==
    IF IsNaN(a) \/ a <= 0 THEN 0
    ELSE IF a = PosInf THEN FiniteMax \div Scale
    ELSE a \div Scale

\* u32 as f32
FromInt(n) == n * Scale

TWO_PI == 6283
PI == 3141

\* sin, by Bhaskara's rational approximation on [0, pi], odd and 2*pi-periodic;
\* NaN for a non-finite argument
SinPos(x) ==
    LET y == x % TWO_PI
        h == IF y > PI THEN y - PI ELSE y
        t == (h * (PI - h)) \div Scale
        v == (16 * t * Scale) \div (5 * ((PI * PI) \div Scale) - 4 * t)
        w == IF v > Scale THEN Scale ELSE v
    IN  IF y > PI THEN -w ELSE w

FSin(x) == IF ~IsFinite(x) THEN NaN ELSE IF x < 0 THEN -SinPos(-x) ELSE SinPos(x)

\* tanh, by the rational approximation x(27 + x^2)/(27 + 9x^2), saturated
\* at +-1 beyond |x| >= 3; tanh(0) = 0 and tanh(NaN) = NaN
FTanh(x) ==
    IF IsNaN(x) THEN NaN
    ELSE IF x >= 3 * Scale THEN Scale
    ELSE IF x <= -3 * Scale THEN -Scale
    ELSE LET m == Abs(x)
             x2 == (m * m) \div Scale
         IN  Sgn(x) * ((m * (27 * Scale + x2)) \div (27 * Scale + 9 * x2))

\* a clamp that forgets the upper limit
clamp_no_upper(v, lo, hi) == FMax(v, lo)

\* clamp: value.max(min).min(max)
clamp(v, lo, hi) == FMin(FMax(v, lo), hi)

\* ------------------------------------------------------------------ u32
Half == 65536

RECURSIVE XorBits(_, _, _)
XorBits(a, b, n) ==
    IF n = 0 THEN 0
    ELSE ((a + b) % 2) + 2 * XorBits(a \div 2, b \div 2, n - 1)

Xor32(x, y) == <<XorBits(x[1], y[1], 16), XorBits(x[2], y[2], 16)>>

RECURSIVE Pow2(_)
Pow2(k) == IF k = 0 THEN 1 ELSE 2 * Pow2(k - 1)

\* x << k, 0 < k < 16, modulo 2^32
Shl32(x, k) ==
    <<((x[1] * Pow2(k)) % Half) + (x[2] \div Pow2(16 - k)), (x[2] * Pow2(k)) % Half>>

\* x >> k, 16 <= k < 32
Shr32(x, k) == <<0, x[1] \div Pow2(k - 16)>>

\* u32::saturating_add
SaturatingAdd(x, y) ==
    IF x[1] + y[1] + (x[2] + y[2]) \div Half >= Half
    THEN <<Half - 1, Half - 1>>
    ELSE <<x[1] + y[1] + (x[2] + y[2]) \div Half, (x[2] + y[2]) % Half>>

\* u32::wrapping_add
WrappingAdd(x, y) ==
    LET lo == x[2] + y[2]
    IN  <<(x[1] + y[1] + lo \div Half) % Half, lo % Half>>

\* xorshift32: the new state, which is also the value drawn
xorshift32(state) ==
    LET x1 == Xor32(state, Shl32(state, 13))
        x2 == Xor32(x1, Shr32(x1, 17))
    IN  Xor32(x2, Shl32(x2, 5))

\* (x as f32) / (u32::MAX as f32), in [0, 1]
Unit(x) == (x[1] * Scale) \div (Half - 1)

\* rand_signed's value for the state drawn
rand_signed(x) == Unit(x) * 2 - Scale

\* ------------------------------------------------------------------ envelope spectrum
\* f32::cos
FCos(x) == FSin(FAdd(x, PI \div 2))

\* the integer square root of n >= 0, between lo and hi
RECURSIVE SqrtBetween(_, _, _)
SqrtBetween(n, lo, hi) ==
    IF lo >= hi THEN lo
    ELSE LET mid == (lo + hi + 1) \div 2
         IN  IF mid * mid <= n THEN SqrtBetween(n, mid, hi) ELSE SqrtBetween(n, lo, mid - 1)

\* f32::hypot, for finite operands below 40
FHypot(a, b) ==
    IF IsInf(a) \/ IsInf(b) THEN PosInf
    ELSE IF IsNaN(a) \/ IsNaN(b) THEN NaN
    ELSE SqrtBetween(a * a + b * b, 0, Abs(a) + Abs(b))

\* tunables that are replaced by their defaults when below their floors
DemonTunablesDefaults(input_band_low_hz, input_band_high_hz, envelope_hp_hz, decimated_rate_target_hz) ==
    [band_low |-> IF IsFinite(input_band_low_hz) /\ FGe(input_band_low_hz, 1000)
                  THEN input_band_low_hz ELSE 20000,
     band_high |-> IF /\ IsFinite(input_band_high_hz)
                      /\ FGe(input_band_high_hz,
                             FAdd(IF IsFinite(input_band_low_hz) /\ FGe(input_band_low_hz, 1000)
                                  THEN input_band_low_hz ELSE 20000, 1000))
                   THEN input_band_high_hz ELSE 1800000,
     env_hp |-> IF IsFinite(envelope_hp_hz) /\ FGe(envelope_hp_hz, 100)
                THEN envelope_hp_hz ELSE 1000,
     decim_target |-> IF IsFinite(decimated_rate_target_hz) /\ FGe(decimated_rate_target_hz, 100000)
                      THEN decimated_rate_target_hz ELSE 500000]

\* the four tunable frequencies as compute_demon_spectrum uses them
DemonTunables(input_band_low_hz, input_band_high_hz, envelope_hp_hz, decimated_rate_target_hz) ==
    [band_low |-> IF IsFinite(input_band_low_hz)
                  THEN FMax(input_band_low_hz, 1000) ELSE 20000,
     band_high |-> IF IsFinite(input_band_high_hz)
                   THEN FMax(input_band_high_hz,
                             FAdd(IF IsFinite(input_band_low_hz)
                                  THEN FMax(input_band_low_hz, 1000) ELSE 20000, 1000))
                   ELSE 1800000,
     env_hp |-> IF IsFinite(envelope_hp_hz) THEN FMax(envelope_hp_hz, 100) ELSE 1000,
     decim_target |-> IF IsFinite(decimated_rate_target_hz)
                      THEN FMax(decimated_rate_target_hz, 100000) ELSE 500000]

\* an early return that looks at the sample rate only
DemonRejectsRate(n_raw, sample_rate) == ~IsFinite(sample_rate) \/ FLe(sample_rate, 0)

\* the first early return of compute_demon_spectrum
DemonRejects(n_raw, sample_rate) ==
    n_raw < 64 \/ ~IsFinite(sample_rate) \/ FLe(sample_rate, 0)

\* the decimation factor d: ((sample_rate / decim_target).floor() as usize).max(1)
DemonDecimation(sample_rate, decim_target) ==
    IF AsU32(FDiv(sample_rate, decim_target)) >= 1
    THEN AsU32(FDiv(sample_rate, decim_target)) ELSE 1

\* the end of one pass of the band-pass loop: the window's mean is stored at
\* every d-th sample
DemonStore(decim_env, x, hp_y, lp_y, accum, d, i) ==
    IF i % d = 0
    THEN [hp_y |-> hp_y, hp_prev_x |-> x, lp_y |-> lp_y, accum |-> 0,
          decim_env |-> Append(decim_env, FDiv(accum, FromInt(d)))]
    ELSE [hp_y |-> hp_y, hp_prev_x |-> x, lp_y |-> lp_y, accum |-> accum,
          decim_env |-> decim_env]

\* accum += lp_y.abs()
DemonRectify(q, x, hp_y, lp_y, d, i) ==
    DemonStore(q.decim_env, x, hp_y, lp_y,
               FAdd(q.accum, IF IsNaN(lp_y) THEN NaN ELSE Abs(lp_y)), d, i)

\* lp_y += lp_alpha * (hp_y - lp_y)
DemonLowPass(q, x, hp_y, lp_alpha, d, i) ==
    DemonRectify(q, x, hp_y, FAdd(q.lp_y, FMul(lp_alpha, FSub(hp_y, q.lp_y))), d, i)

\* one pass of the band-pass loop on the centred sample x, q the state before
DemonPass(q, x, hp_alpha, lp_alpha, d, i) ==
    DemonLowPass(q, x, FMul(hp_alpha, FSub(FAdd(q.hp_y, x), q.hp_prev_x)), lp_alpha, d, i)

\* signal[i] = env_hp_y
DemonKeep(signal, x, env_hp_y) ==
    [env_hp_y |-> env_hp_y, env_hp_prev_x |-> x, signal |-> Append(signal, env_hp_y)]

\* one pass of the envelope high-pass on the decimated sample x
DemonHighPassStep(q, x, env_hp_alpha) ==
    DemonKeep(q.signal, x, FMul(env_hp_alpha, FSub(FAdd(q.env_hp_y, x), q.env_hp_prev_x)))

\* re += v * angle.cos(); im -= v * angle.sin()
DemonAccumulate(q, v, angle) ==
    [re |-> FAdd(q.re, FMul(v, FCos(angle))), im |-> FSub(q.im, FMul(v, FSin(angle)))]

\* the Hann window at the code's index i
DemonHann(i, hann_denom) ==
    FMul(500, FSub(1000, FCos(FDiv(FMul(2 * PI, FromInt(i)), hann_denom))))

\* re.hypot(im) / n_decim
DemonNorm(s, n_decim) == FDiv(FHypot(s.re, s.im), FromInt(n_decim))

\* the filter coefficient rc / (rc + dt) of a high-pass at hz
DemonAlpha(hz, dt) ==
    FDiv(FDiv(1000, FMul(2 * PI, hz)), FAdd(FDiv(1000, FMul(2 * PI, hz)), dt))

\* lp_alpha = dt / (lp_rc + dt)
DemonLowAlpha(hz, dt) == FDiv(dt, FAdd(FDiv(1000, FMul(2 * PI, hz)), dt))

\* ------------------------------------------------------------------ engine
EngineState_new == [phase |-> 0, current_rpm |-> 0, target_rpm |-> 0, blades |-> 5000]

\* self.phase after `self.phase += delta; if self.phase >= TWO_PI { self.phase -= TWO_PI }`
WrapPhase(phase, delta) ==
    LET p == FAdd(phase, delta)
    IN  IF FGe(p, TWO_PI) THEN FSub(p, TWO_PI) ELSE p

\* the smoothed rpm: current_rpm * 0.99 + target_rpm * 0.01
SmoothRpm(e) == FAdd(FMul(e.current_rpm, 990), FMul(e.target_rpm, 10))

\* the stall cutoff of EngineState::tick
Stalled(rpm) == FLt(rpm, 50)

\* a stall that also rewinds the phase
EngineVoiceRewind(e, sample_rate, rpm) ==
    LET base_hz == FMul(FDiv(rpm, 60000), e.blades)
        delta == FDiv(FMul(TWO_PI, base_hz), sample_rate)
        p == WrapPhase(e.phase, delta)
        harmonic_signal ==
            FAdd(FAdd(FAdd(FMul(FSin(p), 600),
                           FMul(FSin(FMul(2000, p)), 250)),
                      FMul(FSin(FMul(3000, p)), 150)),
                 FMul(FSin(FMul(500, p)), 50))
        amplitude == FMin(FDiv(rpm, 220000), 300)
    IN  IF Stalled(rpm)
        THEN [st |-> [e EXCEPT !.current_rpm = rpm, !.phase = 0], out |-> 0]
        ELSE [st |-> [e EXCEPT !.current_rpm = rpm, !.phase = p],
              out |-> FMul(FTanh(FMul(harmonic_signal, 1500)), amplitude)]

\* EngineState::tick past the smoothing, rpm the smoothed rpm: [st, out]
EngineVoice(e, sample_rate, rpm) ==
    LET base_hz == FMul(FDiv(rpm, 60000), e.blades)
        delta == FDiv(FMul(TWO_PI, base_hz), sample_rate)
        p == WrapPhase(e.phase, delta)
        harmonic_signal ==
            FAdd(FAdd(FAdd(FMul(FSin(p), 600),
                           FMul(FSin(FMul(2000, p)), 250)),
                      FMul(FSin(FMul(3000, p)), 150)),
                 FMul(FSin(FMul(500, p)), 50))
        amplitude == FMin(FDiv(rpm, 220000), 300)
    IN  IF Stalled(rpm)
        THEN [st |-> [e EXCEPT !.current_rpm = rpm], out |-> 0]
        ELSE [st |-> [e EXCEPT !.current_rpm = rpm, !.phase = p],
              out |-> FMul(FTanh(FMul(harmonic_signal, 1500)), amplitude)]

\* EngineState::tick: [st: the engine afterwards, out: the sample]
EngineTick(e, sample_rate) == EngineVoice(e, sample_rate, SmoothRpm(e))

\* ------------------------------------------------------------------ cavitation
CavState_new == [lp_noise |-> 0, shaped_noise |-> 0]

\* a gate that closes at the engine's stall cutoff only
CavGatedAtStall(rpm) == FLt(rpm, 50)

\* the gate of CavState::tick
CavGated(rpm) == FLt(rpm, 1000)

\* CavState::tick past the gate, for the state x drawn: [st, rng, out]
CavNoise(c, rpm, phase, x) ==
    LET white == rand_signed(x)
        lp == FAdd(c.lp_noise, FMul(80, FSub(white, c.lp_noise)))
        hp == FSub(white, lp)
        shaped == FAdd(c.shaped_noise, FMul(350, FSub(hp, c.shaped_noise)))
        speed_norm == clamp(FDiv(FSub(rpm, 60000), 320000), 0, 1000)
        intensity == FAdd(10, FMul(FMul(FMul(speed_norm, speed_norm), speed_norm), 780))
        blade_mod == FAdd(500, FMul(500, FSin(phase)))
    IN  [st |-> [lp_noise |-> lp, shaped_noise |-> shaped],
         rng |-> x,
         out |-> FMul(FMul(shaped, intensity), FAdd(350, FMul(650, blade_mod)))]

\* CavState::tick: [st, rng, out]; below 1 rpm nothing is drawn
CavTick(c, rpm, phase, rng) ==
    IF CavGated(rpm)
    THEN [st |-> [lp_noise |-> 0, shaped_noise |-> 0], rng |-> rng, out |-> 0]
    ELSE CavNoise(c, rpm, phase, xorshift32(rng))

\* ------------------------------------------------------------------ events
\* (sample_rate * ms * 0.001) as u32
SamplesOf(sample_rate, ms) == AsU32(FMul(FMul(sample_rate, ms), 1))

\* env *= factor, the factor in 1/10000, the envelope in 1/EnvScale
EnvDecay(env, factor) == (env * factor) \div 10000

\* an envelope level as an f32
EnvValue(env) == (env * Scale) \div EnvScale

\* the near-zero envelope threshold 0.0001, in 1/EnvScale
EnvFloor == 10

\* ------------------------------------------------------------------ chirp
ChirpState_new ==
    [samples_to_next |-> 0, env |-> 0, phase |-> 0,
     start_hz |-> 1600000, end_hz |-> 450000, progress |-> 1000]

\* ChirpState::schedule_next on t = [st, rng]: [st, rng]
ChirpScheduleNext(t, sample_rate, rpm, bio_rate) ==
    LET speed == clamp(FDiv(rpm, 280000), 0, 1000)
        rate_scale == FSub(1250, FMul(800, bio_rate))
        base_ms == FSub(110000, FMul(70000, speed))
        jitter == FAdd(550, FMul(900, Unit(xorshift32(t.rng))))
        ms == FMax(FMul(FMul(base_ms, rate_scale), jitter), 12000)
    IN  [st |-> [t.st EXCEPT !.samples_to_next = SamplesOf(sample_rate, ms)],
         rng |-> xorshift32(t.rng)]

\* ChirpState::trigger_click: [st, rng]
ChirpTriggerClick(s, rpm, rng) ==
    LET speed == clamp(FDiv(rpm, 280000), 0, 1000)
        rnd == Unit(xorshift32(rng))
    IN  [st |-> [s EXCEPT !.env = 90000, !.phase = 0, !.progress = 0,
                          !.start_hz = FAdd(FAdd(1400000, FMul(1200000, speed)),
                                            FMul(300000, rnd)),
                          !.end_hz = FAdd(300000, FMul(450000, FSub(1000, speed)))],
         rng |-> xorshift32(rng)]

\* a scheduler that schedules the next click before it triggers this one
ChirpScheduleFirst(s, sample_rate, rpm, bio_rate, rng) ==
    IF s.samples_to_next = 0
    THEN ChirpTriggerClick(
             ChirpScheduleNext([st |-> s, rng |-> rng], sample_rate, rpm, bio_rate).st,
             rpm,
             ChirpScheduleNext([st |-> s, rng |-> rng], sample_rate, rpm, bio_rate).rng)
    ELSE [st |-> [s EXCEPT !.samples_to_next = s.samples_to_next - 1], rng |-> rng]

\* the event scheduler of ChirpState::tick: trigger then schedule at countdown 0,
\* else count down
ChirpSchedule(s, sample_rate, rpm, bio_rate, rng) ==
    IF s.samples_to_next = 0
    THEN ChirpScheduleNext(ChirpTriggerClick(s, rpm, rng), sample_rate, rpm, bio_rate)
    ELSE [st |-> [s EXCEPT !.samples_to_next = s.samples_to_next - 1], rng |-> rng]

\* a chirp whose envelope is cleared once it is at or below the threshold
ChirpVoiceCleared(a, sample_rate) ==
    LET s == a.st
        chirp_hz == FAdd(s.start_hz, FMul(FSub(s.end_hz, s.start_hz), s.progress))
        phase == WrapPhase(s.phase, FDiv(FMul(TWO_PI, chirp_hz), sample_rate))
        env == EnvDecay(s.env, 9400)
    IN  IF s.env <= EnvFloor
        THEN [st |-> [s EXCEPT !.env = 0], rng |-> a.rng, out |-> 0]
        ELSE [st |-> [s EXCEPT !.phase = phase, !.env = env,
                               !.progress = FMin(FAdd(s.progress, 45), 1000)],
              rng |-> a.rng,
              out |-> FMul(FSin(phase), EnvValue(env))]

\* ChirpState::tick after the scheduler, a = [st, rng]: [st, rng, out]
ChirpVoice(a, sample_rate) ==
    LET s == a.st
        chirp_hz == FAdd(s.start_hz, FMul(FSub(s.end_hz, s.start_hz), s.progress))
        phase == WrapPhase(s.phase, FDiv(FMul(TWO_PI, chirp_hz), sample_rate))
        env == EnvDecay(s.env, 9400)
    IN  IF s.env <= EnvFloor
        THEN [st |-> s, rng |-> a.rng, out |-> 0]
        ELSE [st |-> [s EXCEPT !.phase = phase, !.env = env,
                               !.progress = FMin(FAdd(s.progress, 45), 1000)],
              rng |-> a.rng,
              out |-> FMul(FSin(phase), EnvValue(env))]

\* ChirpState::tick: [st, rng, out]
ChirpTick(s, sample_rate, rpm, bio_rate, rng) ==
    ChirpVoice(ChirpSchedule(s, sample_rate, rpm, bio_rate, rng), sample_rate)

\* ------------------------------------------------------------------ snapping shrimp
SnappingShrimpState_new ==
    [samples_to_next |-> 0, burst_left |-> 0, env |-> 0, hp_state |-> 0]

\* SnappingShrimpState::schedule_next on t = [st, rng]: [st, rng]
ShrimpScheduleNext(t, sample_rate, bio_rate) ==
    LET jitter == FAdd(400, FMul(1200, Unit(xorshift32(t.rng))))
        base_ms == FSub(140000, FMul(136000, bio_rate))
        ms == FMax(FMul(base_ms, jitter), 1000)
    IN  [st |-> [t.st EXCEPT !.samples_to_next = SamplesOf(sample_rate, ms)],
         rng |-> xorshift32(t.rng)]

\* SnappingShrimpState::trigger_snap: [st, rng]
ShrimpTriggerSnap(s, sample_rate, rng) ==
    LET dur_ms == FAdd(1000, Unit(xorshift32(rng)))
    IN  [st |-> [s EXCEPT !.burst_left = SamplesOf(sample_rate, dur_ms),
                          !.env = EnvScale],
         rng |-> xorshift32(rng)]

ShrimpSchedule(s, sample_rate, bio_rate, rng) ==
    IF s.samples_to_next = 0
    THEN ShrimpScheduleNext(ShrimpTriggerSnap(s, sample_rate, rng), sample_rate, bio_rate)
    ELSE [st |-> [s EXCEPT !.samples_to_next = s.samples_to_next - 1], rng |-> rng]

\* the transient of SnappingShrimpState::tick for the white sample drawn as x
ShrimpBurst(s, x) ==
    LET white == rand_signed(x)
        hp_state == FAdd(s.hp_state, FMul(300, FSub(white, s.hp_state)))
        transient == FSub(white, hp_state)
        env == IF s.burst_left > 0 THEN EnvDecay(s.env, 7200) ELSE EnvDecay(s.env, 2000)
    IN  [st |-> [s EXCEPT !.hp_state = hp_state, !.env = env,
                          !.burst_left = IF s.burst_left > 0
                                         THEN s.burst_left - 1 ELSE 0],
         rng |-> x,
         out |-> FMul(FMul(transient, EnvValue(env)), 900)]

\* SnappingShrimpState::tick after the scheduler, a = [st, rng]: [st, rng, out]
ShrimpVoice(a) ==
    IF a.st.burst_left = 0 /\ a.st.env < EnvFloor
    THEN [st |-> a.st, rng |-> a.rng, out |-> 0]
    ELSE ShrimpBurst(a.st, xorshift32(a.rng))

\* SnappingShrimpState::tick: [st, rng, out]
ShrimpTick(s, sample_rate, bio_rate, rng) ==
    ShrimpVoice(ShrimpSchedule(s, sample_rate, bio_rate, rng))

\* ------------------------------------------------------------------ whale moan
WhaleMoanState_new == [phase |-> 0, lfo_phase |-> 0, drift |-> 0]

\* WhaleMoanState::tick for the state x drawn: [st, rng, out]
WhaleVoice(s, sample_rate, bio_rate, x) ==
    LET drift_target == FMul(rand_signed(x), 20)
        d == FSub(drift_target, s.drift)
        drift == FAdd(s.drift, Sgn(d) * ((8 * Abs(d)) \div 10000))
        lfo_hz == FAdd(80, FMul(bio_rate, 320))
        lfo_phase == WrapPhase(s.lfo_phase, FDiv(FMul(TWO_PI, lfo_hz), sample_rate))
        base_hz == FAdd(40000, FMul(110000, bio_rate))
        wobble == FMul(FSin(lfo_phase), FAdd(10000, FMul(20000, bio_rate)))
        inst_hz == FMax(FAdd(FAdd(base_hz, wobble), FMul(drift, 140000)), 20000)
        phase == WrapPhase(s.phase, FDiv(FMul(TWO_PI, inst_hz), sample_rate))
    IN  [st |-> [phase |-> phase, lfo_phase |-> lfo_phase, drift |-> drift],
         rng |-> x,
         out |-> phase]

\* the waveform of WhaleMoanState::tick at phase r.out
WhaleMoan3(r) ==
    [r EXCEPT !.out = FMul(FAdd(FAdd(FMul(FSin(r.out), 750),
                                     FMul(FSin(FMul(500, r.out)), 350)),
                                FMul(FSin(FMul(1500, r.out)), 120)), 420)]

\* WhaleMoanState::tick: [st, rng, out]; no countdown, one draw every tick
WhaleTick(s, sample_rate, bio_rate, rng) ==
    WhaleMoan3(WhaleVoice(s, sample_rate, bio_rate, xorshift32(rng)))

\* ------------------------------------------------------------------ dolphin whistle
DolphinWhistleState_new ==
    [samples_to_next |-> 0, env |-> 0, phase |-> 0, start_hz |-> 5000000,
     end_hz |-> 7600000, progress |-> 1000, vibrato_phase |-> 0]

\* DolphinWhistleState::schedule_next on t = [st, rng]: [st, rng]
DolphinScheduleNext(t, sample_rate, bio_rate) ==
    LET jitter == FAdd(600, Unit(xorshift32(t.rng)))
        base_ms == FSub(320000, FMul(210000, bio_rate))
        ms == FMax(FMul(base_ms, jitter), 35000)
    IN  [st |-> [t.st EXCEPT !.samples_to_next = SamplesOf(sample_rate, ms)],
         rng |-> xorshift32(t.rng)]

\* DolphinWhistleState::trigger_whistle for the two states x0, x1 drawn: [st, rng]
DolphinWhistle2(s, bio_rate, x0, x1) ==
    LET start == FAdd(3200000, FMul(Unit(x0), 6800000))
        span == FMul(FSub(FMul(Unit(x1), 2000), 1000),
                     FAdd(1500000, FMul(1900000, bio_rate)))
    IN  [st |-> [s EXCEPT !.start_hz = start,
                          !.end_hz = clamp(FAdd(start, span), 3000000, 15000000),
                          !.phase = 0, !.progress = 0, !.env = EnvScale],
         rng |-> x1]

\* DolphinWhistleState::trigger_whistle: [st, rng], two draws
DolphinTriggerWhistle(s, rng, bio_rate) ==
    DolphinWhistle2(s, bio_rate, xorshift32(rng), xorshift32(xorshift32(rng)))

DolphinSchedule(s, sample_rate, bio_rate, rng) ==
    IF s.samples_to_next = 0
    THEN DolphinScheduleNext(DolphinTriggerWhistle(s, rng, bio_rate), sample_rate, bio_rate)
    ELSE [st |-> [s EXCEPT !.samples_to_next = s.samples_to_next - 1], rng |-> rng]

\* DolphinWhistleState::tick after the scheduler, a = [st, rng]: [st, rng, out];
\* the progress increment 0.0018 + 0.0012 * bio_rate is taken to the nearest 1/Scale
DolphinVoice(a, sample_rate, bio_rate) ==
    LET s == a.st
        t == s.progress
        curved == FMul(FMul(t, t), FSub(3000, FMul(2000, t)))
        glide_hz == FAdd(s.start_hz, FMul(FSub(s.end_hz, s.start_hz), curved))
        vibrato_phase ==
            WrapPhase(s.vibrato_phase,
                      FDiv(FMul(TWO_PI, FAdd(5000, FMul(3000, bio_rate))), sample_rate))
        vib == FAdd(1000, FMul(15, FSin(vibrato_phase)))
        phase == WrapPhase(s.phase, FDiv(FMul(FMul(TWO_PI, glide_hz), vib), sample_rate))
        env == EnvDecay(s.env, 9965)
    IN  IF s.env <= EnvFloor
        THEN [st |-> s, rng |-> a.rng, out |-> 0]
        ELSE [st |-> [s EXCEPT !.vibrato_phase = vibrato_phase, !.phase = phase,
                               !.env = env,
                               !.progress = FMin(FAdd(t, FAdd(2, FMul(1, bio_rate))), 1000)],
              rng |-> a.rng,
              out |-> FMul(FMul(FSin(phase), EnvValue(env)), 300)]

\* DolphinWhistleState::tick: [st, rng, out]
DolphinTick(s, sample_rate, bio_rate, rng) ==
    DolphinVoice(DolphinSchedule(s, sample_rate, bio_rate, rng), sample_rate, bio_rate)

\* ------------------------------------------------------------------ echolocation click
EcholocationClickState_new ==
    [samples_to_next |-> 0, burst_left |-> 0, phase |-> 0, env |-> 0,
     click_hz |-> 9500000]

\* EcholocationClickState::schedule_next on t = [st, rng]: [st, rng]
EchoScheduleNext(t, sample_rate, bio_rate) ==
    LET jitter == FAdd(700, FMul(600, Unit(xorshift32(t.rng))))
        base_ms == FSub(60000, FMul(55000, bio_rate))
        ms == FMax(FMul(base_ms, jitter), 1200)
    IN  [st |-> [t.st EXCEPT !.samples_to_next = SamplesOf(sample_rate, ms)],
         rng |-> xorshift32(t.rng)]

\* EcholocationClickState::trigger_click: [st, rng]
EchoTriggerClick(s, sample_rate, bio_rate, rng) ==
    LET r == Unit(xorshift32(rng))
    IN  [st |-> [s EXCEPT !.click_hz =
                              FAdd(7000000,
                                   FMul(7000000, FAdd(FMul(350, bio_rate), FMul(650, r)))),
                          !.burst_left = AsU32((sample_rate * 25) \div 100000) + 1,
                          !.phase = 0, !.env = EnvScale],
         rng |-> xorshift32(rng)]

EchoSchedule(s, sample_rate, bio_rate, rng) ==
    IF s.samples_to_next = 0
    THEN EchoScheduleNext(EchoTriggerClick(s, sample_rate, bio_rate, rng), sample_rate,
                          bio_rate)
    ELSE [st |-> [s EXCEPT !.samples_to_next = s.samples_to_next - 1], rng |-> rng]

\* EcholocationClickState::tick after the scheduler, a = [st, rng]: [st, rng, out]
EchoVoice(a, sample_rate) ==
    LET s == a.st
        phase == WrapPhase(s.phase, FDiv(FMul(TWO_PI, s.click_hz), sample_rate))
        env == EnvDecay(s.env, 4500)
    IN  IF s.burst_left = 0
        THEN [st |-> [s EXCEPT !.env = EnvDecay(s.env, 500)], rng |-> a.rng, out |-> 0]
        ELSE [st |-> [s EXCEPT !.burst_left = s.burst_left - 1, !.phase = phase,
                               !.env = env],
              rng |-> a.rng,
              out |-> FMul(FMul(FSin(phase), EnvValue(env)), 850)]

\* EcholocationClickState::tick: [st, rng, out]
EchoTick(s, sample_rate, bio_rate, rng) ==
    EchoVoice(EchoSchedule(s, sample_rate, bio_rate, rng), sample_rate)

\* ------------------------------------------------------------------ humpback song
HumpbackSongState_new ==
    [samples_to_next |-> 0, unit_samples_left |-> 0, unit_kind |-> 0, phase |-> 0,
     mod_phase |-> 0, env |-> 0, current_hz |-> 220000, target_hz |-> 220000,
     unit_progress |-> 1000]

\* x % 3 for a u32 (65536 % 3 = 1)
Mod3(x) == (x[1] + x[2]) % 3

\* x.powf(1.8) on [0, 1], by the interpolation (4 x^2 + x) / 5: 0 at 0, 1 at 1,
\* increasing
Pow18(x) == (4 * FMul(x, x) + x) \div 5

\* HumpbackSongState::schedule_gap on t = [st, rng]: [st, rng]
HumpbackScheduleGap(t, sample_rate, bio_rate) ==
    LET jitter == FAdd(600, Unit(xorshift32(t.rng)))
        base_ms == FSub(320000, FMul(220000, bio_rate))
        gap_ms == FMax(FMul(base_ms, jitter), 30000)
    IN  [st |-> [t.st EXCEPT !.samples_to_next = SamplesOf(sample_rate, gap_ms)],
         rng |-> xorshift32(t.rng)]

\* HumpbackSongState::trigger_unit for the states x0, x1, x2 drawn: [st, rng];
\* the kind decides how many are drawn
HumpbackUnit(s, sample_rate, bio_rate, x0, x1, x2) ==
    LET kind == Mod3(x0)
        r == [s EXCEPT !.unit_kind = kind, !.phase = 0, !.mod_phase = 0,
                       !.env = EnvScale, !.unit_progress = 0]
    IN  IF kind = 0
        THEN [st |-> [r EXCEPT !.unit_samples_left =
                                   SamplesOf(sample_rate, FAdd(450000, FMul(650000, Unit(x1)))),
                               !.target_hz = FAdd(55000, FMul(110000, bio_rate))],
              rng |-> x1]
        ELSE IF kind = 1
        THEN [st |-> [r EXCEPT !.unit_samples_left =
                                   SamplesOf(sample_rate, FAdd(260000, FMul(420000, Unit(x1)))),
                               !.target_hz = FAdd(380000, FMul(620000, Unit(x2)))],
              rng |-> x2]
        ELSE [st |-> [r EXCEPT !.unit_samples_left =
                                   SamplesOf(sample_rate, FAdd(320000, FMul(480000, Unit(x1)))),
                               !.target_hz = FAdd(120000, FMul(340000, Unit(x2)))],
              rng |-> x2]

\* HumpbackSongState::trigger_unit: [st, rng]
HumpbackTriggerUnit(s, sample_rate, bio_rate, rng) ==
    HumpbackUnit(s, sample_rate, bio_rate, xorshift32(rng), xorshift32(xorshift32(rng)),
                 xorshift32(xorshift32(xorshift32(rng))))

\* unit_samples_left.saturating_sub(1), then schedule_gap at 0: [st, rng]
HumpbackCount(t, sample_rate, bio_rate) ==
    IF t.st.unit_samples_left <= 1
    THEN HumpbackScheduleGap([t EXCEPT !.st.unit_samples_left = 0], sample_rate, bio_rate)
    ELSE [t EXCEPT !.st.unit_samples_left = t.st.unit_samples_left - 1]

\* the oscillators and envelope of HumpbackSongState::tick, g = [st, rng]:
\* [st, rng, out], out the phase before the kind's waveform
HumpbackGlide(g, sample_rate, bio_rate) ==
    LET s == g.st
        dh == FSub(s.target_hz, s.current_hz)
        current_hz == FAdd(s.current_hz, Sgn(dh) * ((25 * Abs(dh)) \div 10000))
        mod_phase ==
            WrapPhase(s.mod_phase,
                      FDiv(FMul(TWO_PI, FAdd(200, FMul(900, bio_rate))), sample_rate))
        mod_scale == FAdd(1000, FMul(100, FSin(mod_phase)))
        phase == WrapPhase(s.phase,
                           FDiv(FMul(FMul(TWO_PI, current_hz), mod_scale), sample_rate))
        unit_progress ==
            FMin(FAdd(s.unit_progress, FDiv(1000, FMul(sample_rate, 700))), 1000)
        attack == FMin(FDiv(unit_progress, 120), 1000)
        release == FSub(1000, Pow18(unit_progress))
        env == (FMul(attack, FMax(release, 0)) * EnvScale) \div Scale
    IN  [st |-> [s EXCEPT !.current_hz = current_hz, !.mod_phase = mod_phase,
                          !.phase = phase, !.unit_progress = unit_progress, !.env = env],
         rng |-> g.rng,
         out |-> phase]

\* the third kind's extra phase advance: self.phase += TWO_PI * (sweep - current_hz) / sample_rate
HumpbackSweep(s, sample_rate) ==
    LET rise == FMul(s.unit_progress, s.unit_progress)
        sweep == FMul(s.current_hz, FAdd(800, FMul(600, rise)))
    IN  FAdd(s.phase, FDiv(FMul(TWO_PI, FSub(sweep, s.current_hz)), sample_rate))

\* the waveform of the playing kind at phase p, scaled by the envelope e
HumpbackWave(kind, p, e) ==
    IF kind = 0
    THEN FMul(FMul(FAdd(FAdd(FMul(FSin(p), 750), FMul(FSin(FMul(500, p)), 350)),
                        FMul(FSin(FMul(1400, p)), 120)), e), 400)
    ELSE IF kind = 1
    THEN FMul(FMul(FAdd(FMul(FSin(p), 900), FMul(FSin(FMul(2030, p)), 80)), e), 340)
    ELSE FMul(FMul(FAdd(FMul(FSin(p), 800), FMul(FSin(FMul(1500, p)), 150)), e), 360)

\* the match on unit_kind that ends HumpbackSongState::tick
HumpbackOut(r, sample_rate) ==
    IF r.st.unit_kind \in {0, 1}
    THEN [r EXCEPT !.out = HumpbackWave(r.st.unit_kind, r.st.phase, EnvValue(r.st.env))]
    ELSE [r EXCEPT !.st.phase = HumpbackSweep(r.st, sample_rate),
                   !.out = HumpbackWave(r.st.unit_kind, HumpbackSweep(r.st, sample_rate),
                                        EnvValue(r.st.env))]

\* the body of HumpbackSongState::tick once a unit is playing, t = [st, rng]
HumpbackPlay(t, sample_rate, bio_rate) ==
    HumpbackOut(HumpbackGlide(HumpbackCount(t, sample_rate, bio_rate), sample_rate,
                              bio_rate),
                sample_rate)

\* HumpbackSongState::tick: [st, rng, out]
HumpbackTick(s, sample_rate, bio_rate, rng) ==
    IF s.unit_samples_left = 0
    THEN IF s.samples_to_next = 0
         THEN HumpbackPlay(HumpbackTriggerUnit(s, sample_rate, bio_rate, rng), sample_rate,
                           bio_rate)
         ELSE [st |-> [s EXCEPT !.samples_to_next = s.samples_to_next - 1],
               rng |-> rng, out |-> 0]
    ELSE HumpbackPlay([st |-> s, rng |-> rng], sample_rate, bio_rate)

\* ------------------------------------------------------------------ bio
Chirp == 0
SnappingShrimp == 1
WhaleMoan == 2
DolphinWhistle == 3
EcholocationClick == 4
HumpbackSong == 5
BioTypes == {Chirp, SnappingShrimp, WhaleMoan, DolphinWhistle, EcholocationClick,
             HumpbackSong}

\* BioType::from_param: round, clamp to [0, 5], cast; every other value is Chirp
from_param(value) ==
    LET n == AsU32(clamp(FRound(value), 0, 5000))
    IN  IF n \in 1..5 THEN n ELSE Chirp

BioState_new ==
    [bio_type |-> Chirp, prev_type |-> Chirp, bio_rate |-> 350, xfade |-> 1000,
     chirp |-> ChirpState_new, snapping_shrimp |-> SnappingShrimpState_new,
     whale_moan |-> WhaleMoanState_new, dolphin_whistle |-> DolphinWhistleState_new,
     echolocation_click |-> EcholocationClickState_new,
     humpback_song |-> HumpbackSongState_new]

\* a set_type that restarts the generator of the mode it switches to
set_type_cold(b, next) ==
    IF next = b.bio_type THEN b
    ELSE [b EXCEPT !.prev_type = b.bio_type, !.bio_type = next, !.xfade = 0,
                   !.chirp = IF next = Chirp THEN ChirpState_new ELSE b.chirp,
                   !.snapping_shrimp = IF next = SnappingShrimp THEN SnappingShrimpState_new
                                       ELSE b.snapping_shrimp,
                   !.whale_moan = IF next = WhaleMoan THEN WhaleMoanState_new ELSE b.whale_moan,
                   !.dolphin_whistle = IF next = DolphinWhistle THEN DolphinWhistleState_new
                                       ELSE b.dolphin_whistle,
                   !.echolocation_click = IF next = EcholocationClick THEN EcholocationClickState_new
                                          ELSE b.echolocation_click,
                   !.humpback_song = IF next = HumpbackSong THEN HumpbackSongState_new
                                     ELSE b.humpback_song]

\* a set_type that forgets to move the active mode to prev_type
set_type_stale(b, next) ==
    IF next = b.bio_type THEN b
    ELSE [b EXCEPT !.bio_type = next, !.xfade = 0]

\* a set_type without the early return
set_type_restart(b, next) ==
    [b EXCEPT !.prev_type = b.bio_type, !.bio_type = next, !.xfade = 0]

\* BioState::set_type
set_type(b, next) ==
    IF next = b.bio_type THEN b
    ELSE [b EXCEPT !.prev_type = b.bio_type, !.bio_type = next, !.xfade = 0]

\* BioState::set_rate
set_rate(b, value) == [b EXCEPT !.bio_rate = clamp(value, 0, 1000)]

\* the generator's result r = [st, rng, out] stored back into the BioState b
PutMode(b, mode, r) ==
    [st |-> IF mode = Chirp THEN [b EXCEPT !.chirp = r.st]
            ELSE IF mode = SnappingShrimp THEN [b EXCEPT !.snapping_shrimp = r.st]
            ELSE IF mode = WhaleMoan THEN [b EXCEPT !.whale_moan = r.st]
            ELSE IF mode = DolphinWhistle THEN [b EXCEPT !.dolphin_whistle = r.st]
            ELSE IF mode = EcholocationClick THEN [b EXCEPT !.echolocation_click = r.st]
            ELSE [b EXCEPT !.humpback_song = r.st],
     rng |-> r.rng, out |-> r.out]

\* the match of BioState::tick_mode: the generator's [st, rng, out]
GeneratorTick(b, mode, sample_rate, rpm, rng) ==
    IF mode = Chirp THEN ChirpTick(b.chirp, sample_rate, rpm, b.bio_rate, rng)
    ELSE IF mode = SnappingShrimp
    THEN ShrimpTick(b.snapping_shrimp, sample_rate, b.bio_rate, rng)
    ELSE IF mode = WhaleMoan THEN WhaleTick(b.whale_moan, sample_rate, b.bio_rate, rng)
    ELSE IF mode = DolphinWhistle
    THEN DolphinTick(b.dolphin_whistle, sample_rate, b.bio_rate, rng)
    ELSE IF mode = EcholocationClick
    THEN EchoTick(b.echolocation_click, sample_rate, b.bio_rate, rng)
    ELSE HumpbackTick(b.humpback_song, sample_rate, b.bio_rate, rng)

\* BioState::tick_mode: [st: the BioState afterwards, rng, out]
tick_mode(b, mode, sample_rate, rpm, rng) ==
    PutMode(b, mode, GeneratorTick(b, mode, sample_rate, rpm, rng))

\* the crossfade increment 1.0 / (sample_rate * 0.015)
XfadeStep(sample_rate) == FDiv(1000, FMul(sample_rate, 15))

\* a blend that leaves the crossfade uncapped
BioBlendUncapped(xfade, sample_rate, ra, rb) ==
    [st |-> [rb.st EXCEPT !.xfade = FAdd(xfade, XfadeStep(sample_rate))],
     rng |-> rb.rng,
     out |-> FAdd(FMul(ra.out, FSub(1000, xfade)), FMul(rb.out, xfade))]

\* the blend that ends the crossfading branch of BioState::tick: ra the previous
\* mode's result, rb the active mode's
BioBlend(xfade, sample_rate, ra, rb) ==
    [st |-> [rb.st EXCEPT !.xfade = FMin(FAdd(xfade, XfadeStep(sample_rate)), 1000)],
     rng |-> rb.rng,
     out |-> FAdd(FMul(ra.out, FSub(1000, xfade)), FMul(rb.out, xfade))]

\* the crossfading branch of BioState::tick, ra the previous mode's result
BioCross(b, sample_rate, rpm, ra) ==
    BioBlend(b.xfade, sample_rate, ra,
             tick_mode(ra.st, b.bio_type, sample_rate, rpm, ra.rng))

\* a blend that ends on the previous mode's result
BioBlendSwapped(xfade, sample_rate, ra, rb) ==
    [st |-> [ra.st EXCEPT !.xfade = FMin(FAdd(xfade, XfadeStep(sample_rate)), 1000)],
     rng |-> ra.rng,
     out |-> FAdd(FMul(ra.out, FSub(1000, xfade)), FMul(rb.out, xfade))]

\* a crossfading branch that is handed the active mode's result rb and ticks
\* the previous mode after it
BioCrossSwapped(b, sample_rate, rpm, rb) ==
    BioBlendSwapped(b.xfade, sample_rate,
                    tick_mode(rb.st, b.prev_type, sample_rate, rpm, rb.rng), rb)

\* a tick that, crossfading, ticks the active mode before the previous one
BioTickActiveFirst(b, sample_rate, rpm, rng) ==
    IF FLt(b.xfade, 1000)
    THEN BioCrossSwapped(b, sample_rate, rpm,
                         tick_mode(b, b.bio_type, sample_rate, rpm, rng))
    ELSE tick_mode(b, b.bio_type, sample_rate, rpm, rng)

\* the state of the generator of a mode in the BioState b
Generator(b, mode) ==
    IF mode = Chirp THEN b.chirp
    ELSE IF mode = SnappingShrimp THEN b.snapping_shrimp
    ELSE IF mode = WhaleMoan THEN b.whale_moan
    ELSE IF mode = DolphinWhistle THEN b.dolphin_whistle
    ELSE IF mode = EcholocationClick THEN b.echolocation_click
    ELSE b.humpback_song

\* BioState::tick: [st, rng, out]
BioTick(b, sample_rate, rpm, rng) ==
    IF FLt(b.xfade, 1000)
    THEN BioCross(b, sample_rate, rpm, tick_mode(b, b.prev_type, sample_rate, rpm, rng))
    ELSE tick_mode(b, b.bio_type, sample_rate, rpm, rng)

\* ------------------------------------------------------------------ voice
PARAM_RPM == 0
PARAM_BLADES == 1
PARAM_GAIN == 2
PARAM_ENGINE_MIX == 3
PARAM_CAV_MIX == 4
PARAM_BIO_MIX == 5
PARAM_BIO_TYPE == 6
PARAM_BIO_RATE == 7

\* Voice::new
Voice_new(seed) ==
    [active |-> TRUE, gain |-> 1000, engine_mix |-> 1000, cav_mix |-> 550,
     bio_mix |-> 250, rng |-> seed, engine |-> EngineState_new, cav |-> CavState_new,
     bio |-> BioState_new]

\* the sum that ends Voice::sample, e, c, b the three generators' results
VoiceMix(v, e, c, b) ==
    [st |-> [v EXCEPT !.engine = e.st, !.cav = c.st, !.bio = b.st, !.rng = b.rng],
     out |-> FMul(FAdd(FAdd(FMul(e.out, v.engine_mix), FMul(c.out, v.cav_mix)),
                       FMul(b.out, v.bio_mix)),
                  v.gain)]

\* Voice::sample from the bio tick on
VoiceBio(v, sample_rate, e, c) ==
    VoiceMix(v, e, c, BioTick(v.bio, sample_rate, e.st.current_rpm, c.rng))

\* Voice::sample from the cavitation tick on
VoiceCav(v, sample_rate, e) ==
    VoiceBio(v, sample_rate, e, CavTick(v.cav, e.st.current_rpm, e.st.phase, v.rng))

\* a sample that forgets the early return for an inactive voice
Voice_sample_unguarded(v, sample_rate) ==
    VoiceCav(v, sample_rate, EngineTick(v.engine, sample_rate))

\* Voice::sample: [st: the voice afterwards, out: its sample]
Voice_sample(v, sample_rate) ==
    IF ~v.active
    THEN [st |-> v, out |-> 0]
    ELSE VoiceCav(v, sample_rate, EngineTick(v.engine, sample_rate))

\* ------------------------------------------------------------------ graph
VARIABLES
    sample_rate,    \* DspGraph.sample_rate
    max_frames,     \* DspGraph.max_frames
    last_frames,    \* DspGraph.last_frames
    voices,         \* DspGraph.voices, indexed 0 .. len-1
    output,         \* DspGraph.output, indexed 0 .. max_frames-1
    next_seed,      \* DspGraph.next_seed
    pc,             \* "idle", or "process" inside the frame loop of process
    frame,          \* the loop index i of process
    call,           \* the last call made and what it returned
    entry,          \* voices and output as the last process call found them
    ncalls,         \* calls made since construction
    nsets,          \* set_param calls made since construction
    demon,          \* the last call of compute_demon_spectrum and what it returned
    seeds           \* the seeds add_voice has handed out, in order

vars == <<sample_rate, max_frames, last_frames, voices, output, next_seed, pc, frame,
          call, entry, ncalls, nsets, demon, seeds>>

\* the fields of DspGraph
graph == <<sample_rate, max_frames, last_frames, voices, output, next_seed>>

NumVoices == Cardinality(DOMAIN voices)

SEED0 == <<4660, 43981>>
SEED_STEP == <<40503, 31161>>

Max(a, b) == IF a >= b THEN a ELSE b
Min(a, b) == IF a <= b THEN a ELSE b

\* DspGraph::new
New(sr, frames, max_voices) ==
    /\ sample_rate = sr
    /\ max_frames = Max(frames, 1)
    /\ last_frames = 0
    /\ voices = [i \in 0 .. Max(max_voices, 1) - 1 |->
                    [Voice_new(<<0, 0>>) EXCEPT !.active = FALSE]]
    /\ output = [i \in 0 .. Max(frames, 1) - 1 |-> 0]
    /\ next_seed = SEED0

\* compute_demon_spectrum has not been called: its arguments, its position, its
\* locals and the vector it returns
NoSpectrum ==
    [pc |-> "idle", shape |-> "none", samples |-> 0, sample_rate |-> 0, max_freq_hz |-> 0,
     tunables |-> <<0, 0, 0, 0>>, t |-> DemonTunables(NaN, NaN, NaN, NaN),
     i |-> 0, sum |-> 0, mean_raw |-> 0,
     q |-> [hp_y |-> 0, hp_prev_x |-> 0, lp_y |-> 0, accum |-> 0, decim_env |-> <<>>],
     h |-> [env_hp_y |-> 0, env_hp_prev_x |-> 0, signal |-> <<>>],
     f |-> 0, s |-> [re |-> 0, im |-> 0], spectrum |-> <<>>]

\* the state after construction, the constructor's arguments drawn from the sets
Constructed(rates, frame_args, voice_args) ==
    /\ \E sr \in rates, frames \in frame_args, max_voices \in voice_args :
          New(sr, frames, max_voices)
    /\ pc = "idle"
    /\ frame = 0
    /\ call = [op |-> "new", voice_id |-> 0, param_id |-> 0, frames |-> 0, ret |-> 0]
    /\ entry = [voices |-> voices, output |-> output]
    /\ ncalls = 0
    /\ nsets = 0
    /\ demon = NoSpectrum
    /\ seeds = <<>>

\* a call returns: what it was and what it returned
Called(op, voice_id, param_id, frames, ret) ==
    /\ call' = [op |-> op, voice_id |-> voice_id, param_id |-> param_id,
                frames |-> frames, ret |-> ret]
    /\ ncalls' = ncalls + 1
    /\ nsets' = IF op = "set_param" THEN nsets + 1 ELSE nsets
    /\ UNCHANGED demon
    /\ seeds' = IF op = "add_voice" /\ ret >= 0 THEN Append(seeds, voices'[ret].rng) ELSE seeds

\* the slots add_voice's scan finds inactive
FreeSlots == {i \in DOMAIN voices : ~voices[i].active}

\* a scan that keeps the last inactive slot it sees
LastFree == CHOOSE i \in FreeSlots : \A j \in FreeSlots : i >= j

\* the first inactive slot of the scan
FirstFree == CHOOSE i \in FreeSlots : \A j \in FreeSlots : i <= j

\* an add_voice that only reopens the slot, keeping the state it was left in
AddVoiceReopen ==
    /\ pc = "idle"
    /\ IF FreeSlots # {}
       THEN /\ next_seed' = WrappingAdd(next_seed, SEED_STEP)
            /\ voices' = [voices EXCEPT ![FirstFree].active = TRUE,
                                        ![FirstFree].rng = next_seed']
            /\ Called("add_voice", 0, 0, 0, FirstFree)
       ELSE /\ UNCHANGED <<voices, next_seed>>
            /\ Called("add_voice", 0, 0, 0, -1)
    /\ UNCHANGED <<sample_rate, max_frames, last_frames, output, pc, frame, entry>>

\* an add_voice that draws the seed before it scans for a slot
AddVoiceSeedFirst ==
    /\ pc = "idle"
    /\ next_seed' = WrappingAdd(next_seed, SEED_STEP)
    /\ IF FreeSlots # {}
       THEN /\ voices' = [voices EXCEPT ![FirstFree] = Voice_new(next_seed')]
            /\ Called("add_voice", 0, 0, 0, FirstFree)
       ELSE /\ UNCHANGED voices
            /\ Called("add_voice", 0, 0, 0, -1)
    /\ UNCHANGED <<sample_rate, max_frames, last_frames, output, pc, frame, entry>>

\* DspGraph::add_voice
AddVoice ==
    /\ pc = "idle"
    /\ IF FreeSlots # {}
       THEN /\ next_seed' = WrappingAdd(next_seed, SEED_STEP)
            /\ voices' = [voices EXCEPT ![FirstFree] = Voice_new(next_seed')]
            /\ Called("add_voice", 0, 0, 0, FirstFree)
       ELSE /\ UNCHANGED <<voices, next_seed>>
            /\ Called("add_voice", 0, 0, 0, -1)
    /\ UNCHANGED <<sample_rate, max_frames, last_frames, output, pc, frame, entry>>

\* a remove_voice that resets the slot as it releases it
RemoveVoiceReset(voice_id) ==
    /\ pc = "idle"
    /\ IF voice_id >= NumVoices
       THEN /\ UNCHANGED voices
            /\ Called("remove_voice", voice_id, 0, 0, FALSE)
       ELSE /\ voices' = [voices EXCEPT ![voice_id] =
                                           [Voice_new(<<0, 0>>) EXCEPT !.active = FALSE]]
            /\ Called("remove_voice", voice_id, 0, 0, TRUE)
    /\ UNCHANGED <<sample_rate, max_frames, last_frames, output, next_seed, pc, frame,
                   entry>>

\* DspGraph::remove_voice
RemoveVoice(voice_id) ==
    /\ pc = "idle"
    /\ IF voice_id >= NumVoices
       THEN /\ UNCHANGED voices
            /\ Called("remove_voice", voice_id, 0, 0, FALSE)
       ELSE /\ voices' = [voices EXCEPT ![voice_id].active = FALSE]
            /\ Called("remove_voice", voice_id, 0, 0, TRUE)
    /\ UNCHANGED <<sample_rate, max_frames, last_frames, output, next_seed, pc, frame,
                   entry>>

\* the match of set_param: the voice afterwards
ApplyParam(v, param_id, value) ==
    IF param_id = PARAM_RPM THEN [v EXCEPT !.engine.target_rpm = FMax(value, 0)]
    ELSE IF param_id = PARAM_BLADES
    THEN [v EXCEPT !.engine.blades = clamp(value, 1000, 12000)]
    ELSE IF param_id = PARAM_GAIN THEN [v EXCEPT !.gain = clamp(value, 0, 2000)]
    ELSE IF param_id = PARAM_ENGINE_MIX THEN [v EXCEPT !.engine_mix = clamp(value, 0, 1500)]
    ELSE IF param_id = PARAM_CAV_MIX THEN [v EXCEPT !.cav_mix = clamp(value, 0, 1500)]
    ELSE IF param_id = PARAM_BIO_MIX THEN [v EXCEPT !.bio_mix = clamp(value, 0, 1500)]
    ELSE IF param_id = PARAM_BIO_TYPE
    THEN [v EXCEPT !.bio = set_type(v.bio, from_param(value))]
    ELSE IF param_id = PARAM_BIO_RATE THEN [v EXCEPT !.bio = set_rate(v.bio, value)]
    ELSE v

\* a match with a catch-all arm that reports success
AnyParam(param_id) == param_id >= PARAM_RPM

\* the param ids the match of set_param knows
KnownParam(param_id) == param_id \in PARAM_RPM .. PARAM_BIO_RATE

\* an early return that checks the index only
InRange(voice_id) == voice_id < NumVoices

\* the voice ids that pass the first early return of set_param
Addressable(voice_id) == voice_id < NumVoices /\ voices[voice_id].active

\* DspGraph::set_param
SetParam(voice_id, param_id, value) ==
    /\ pc = "idle"
    /\ IF ~Addressable(voice_id)
       THEN /\ UNCHANGED voices
            /\ Called("set_param", voice_id, param_id, 0, FALSE)
       ELSE IF ~KnownParam(param_id)
       THEN /\ UNCHANGED voices
            /\ Called("set_param", voice_id, param_id, 0, FALSE)
       ELSE /\ voices' = [voices EXCEPT ![voice_id] = ApplyParam(@, param_id, value)]
            /\ Called("set_param", voice_id, param_id, 0, TRUE)
    /\ UNCHANGED <<sample_rate, max_frames, last_frames, output, next_seed, pc, frame,
                   entry>>

\* a frame count taken as asked
FramesAsked(frames) == frames

\* the frame count process renders
FramesToRender(frames) == Min(frames, max_frames)

\* DspGraph::process, up to the frame loop
Process(frames) ==
    /\ pc = "idle"
    /\ last_frames' = FramesToRender(frames)
    /\ frame' = 0
    /\ pc' = IF FramesToRender(frames) > 0 THEN "process" ELSE "idle"
    /\ entry' = [voices |-> voices, output |-> output]
    /\ Called("process", 0, 0, frames, 0)
    /\ UNCHANGED <<sample_rate, max_frames, voices, output, next_seed>>

\* every voice sampled once, in slot order: [i |-> [st, out]]
SampleAll(vs, sr) == [i \in DOMAIN vs |-> Voice_sample(vs[i], sr)]

\* the sum of the samples of the voices 0 .. n-1, in slot order
RECURSIVE MixOf(_, _)
MixOf(samples, n) ==
    IF n = 0 THEN 0 ELSE FAdd(MixOf(samples, n - 1), samples[n - 1].out)

\* one iteration of the frame loop of process: every voice is sampled once,
\* the sum goes through tanh into output[i]
ProcessFrame ==
    /\ pc = "process"
    /\ LET samples == SampleAll(voices, sample_rate)
       IN  /\ voices' = [i \in DOMAIN voices |-> samples[i].st]
           /\ output' = [output EXCEPT ![frame] = FTanh(MixOf(samples, NumVoices))]
    /\ frame' = frame + 1
    /\ pc' = IF frame + 1 < last_frames THEN "process" ELSE "idle"
    /\ UNCHANGED <<sample_rate, max_frames, last_frames, next_seed, call, entry, ncalls,
                   nsets, demon, seeds>>

\* ------------------------------------------------------------------ the pool
\* bounds of the exploration
MaxVoices == 2
MaxFrames == 1
MaxCalls == 3
MaxSets == 1

SampleRates == {400000}
Values == {NaN, -1000, 0, 1400, 5000, PosInf}
VoiceIds == 0 .. MaxVoices
ParamIds == 0 .. PARAM_BIO_RATE + 1
FrameCounts == 0 .. MaxFrames + 1

Init == Constructed(SampleRates, 0 .. MaxFrames, 0 .. MaxVoices)

Next ==
    \/ ncalls < MaxCalls /\ AddVoice
    \/ ncalls < MaxCalls /\ \E voice_id \in VoiceIds : RemoveVoice(voice_id)
    \/ /\ ncalls < MaxCalls
       /\ nsets < MaxSets
       /\ \E voice_id \in VoiceIds, param_id \in ParamIds, value \in Values :
             SetParam(voice_id, param_id, value)
    \/ ncalls < MaxCalls /\ \E frames \in FrameCounts : Process(frames)
    \/ ProcessFrame

Spec == Init /\ [][Next]_vars

\* the steps that are a call of one operation
AddVoiceStep == call'.op = "add_voice" /\ ncalls' = ncalls + 1
RemoveVoiceStep == call'.op = "remove_voice" /\ ncalls' = ncalls + 1
SetParamStep == call'.op = "set_param" /\ ncalls' = ncalls + 1

\* C1: add_voice on a pool with an inactive slot returns the lowest inactive
\* index, makes that slot active and changes no other slot; no step changes the
\* number of slots.
C1_AddVoiceLowestFree ==
    [][/\ DOMAIN voices' = DOMAIN voices
       /\ (AddVoiceStep /\ \E i \in DOMAIN voices : ~voices[i].active) =>
             /\ call'.ret \in DOMAIN voices
             /\ ~voices[call'.ret].active
             /\ \A j \in DOMAIN voices : j < call'.ret => voices[j].active
             /\ voices'[call'.ret].active
             /\ \A j \in DOMAIN voices : j # call'.ret => voices'[j] = voices[j]]_vars

\* add_voice took slot 1 of a pool whose slot 0 is active and left slot 0 as it was
C1_Witness ==
    /\ call.op = "add_voice"
    /\ call.ret = 1
    /\ voices[0].active
    /\ voices[1].active
    /\ voices[0].rng # voices[1].rng

\* C2: set_param on a voice_id out of range or on an inactive slot returns false
\* and changes nothing of the pool, for every param_id and value.
C2_SetParamRejectsVoice ==
    [][(SetParamStep /\ (call'.voice_id >= NumVoices \/ ~voices[call'.voice_id].active)) =>
           (call'.ret = FALSE /\ graph' = graph)]_vars

\* set_param was refused on a slot that remove_voice released: the slot keeps the
\* seed it was allocated with
C2_Witness ==
    /\ call.op = "set_param"
    /\ call.ret = FALSE
    /\ call.voice_id < NumVoices
    /\ ~voices[call.voice_id].active
    /\ voices[call.voice_id].rng # <<0, 0>>
    /\ call.param_id = PARAM_GAIN

\* C3: set_param on an active, in-range voice returns false and changes nothing
\* when param_id is not one of 0 .. 7, and returns true when it is.
C3_SetParamUnknownId ==
    [][(SetParamStep /\ call'.voice_id < NumVoices /\ voices[call'.voice_id].active) =>
           IF call'.param_id \in 0 .. 7
           THEN call'.ret = TRUE
           ELSE call'.ret = FALSE /\ graph' = graph]_vars

\* set_param with id 8 was refused on an active voice
C3_Witness ==
    /\ call.op = "set_param"
    /\ call.param_id = 8
    /\ call.ret = FALSE
    /\ call.voice_id < NumVoices
    /\ voices[call.voice_id].active

\* the ranges set_param and Voice::new keep every voice's parameters in
InRanges(v) ==
    /\ FGe(v.gain, 0) /\ FLe(v.gain, 2000)
    /\ FGe(v.engine_mix, 0) /\ FLe(v.engine_mix, 1500)
    /\ FGe(v.cav_mix, 0) /\ FLe(v.cav_mix, 1500)
    /\ FGe(v.bio_mix, 0) /\ FLe(v.bio_mix, 1500)
    /\ FGe(v.engine.blades, 1000) /\ FLe(v.engine.blades, 12000)
    /\ FGe(v.bio.bio_rate, 0) /\ FLe(v.bio.bio_rate, 1000)
    /\ FGe(v.engine.target_rpm, 0)

\* C4: whatever calls were made with whatever values, every voice has gain in
\* [0, 2], the three mixes in [0, 1.5], blades in [1, 12], bio_rate in [0, 1]
\* and target_rpm >= 0; an accepted set_param of gain 5.0 leaves gain 2.0, and
\* of blade count 0 leaves blade count 1.
C4_ParamRanges ==
    /\ [](\A i \in DOMAIN voices : InRanges(voices[i]))
    /\ [][\A voice_id \in DOMAIN voices :
             /\ (SetParam(voice_id, PARAM_GAIN, 5000) /\ call'.ret = TRUE) =>
                    voices'[voice_id].gain = 2000
             /\ (SetParam(voice_id, PARAM_BLADES, 0) /\ call'.ret = TRUE) =>
                    voices'[voice_id].engine.blades = 1000]_vars

\* a voice's gain stands at the upper limit after an accepted set_param of gain
C4_Witness ==
    /\ call.op = "set_param"
    /\ call.param_id = PARAM_GAIN
    /\ call.ret = TRUE
    /\ voices[call.voice_id].gain = 2000

\* the state of a voice besides its active flag and its seed
Fresh(v) == [v EXCEPT !.active = TRUE, !.rng = <<0, 0>>] = Voice_new(<<0, 0>>)

\* C7: remove_voice on a voice_id out of range returns false and changes
\* nothing; in range it returns true, also on an inactive slot, and changes
\* only that slot's active flag, to false.
C7_RemoveVoice ==
    [][RemoveVoiceStep =>
           IF call'.voice_id >= NumVoices
           THEN call'.ret = FALSE /\ graph' = graph
           ELSE /\ call'.ret = TRUE
                /\ voices' = [voices EXCEPT ![call'.voice_id].active = FALSE]
                /\ UNCHANGED <<sample_rate, max_frames, last_frames, output,
                               next_seed>>]_vars

\* remove_voice released a slot whose voice had been changed since it was
\* allocated, and the slot keeps the changes
C7_Witness ==
    /\ call.op = "remove_voice"
    /\ call.ret = TRUE
    /\ ~voices[call.voice_id].active
    /\ ~Fresh(voices[call.voice_id])

\* C8: add_voice on a pool whose slots are all active returns -1 and changes
\* nothing, the seed counter included; add_voice fails only then, so it
\* succeeds again once remove_voice has released a slot.
C8_AddVoiceFull ==
    [][AddVoiceStep =>
           IF \A i \in DOMAIN voices : voices[i].active
           THEN call'.ret = -1 /\ graph' = graph
           ELSE call'.ret >= 0]_vars

\* add_voice was refused on a full pool
C8_Witness ==
    /\ call.op = "add_voice"
    /\ call.ret = -1
    /\ \A i \in DOMAIN voices : voices[i].active
    /\ next_seed # SEED0

\* ------------------------------------------------------------------ rendering
\* bounds of the exploration of process over longer blocks
MaxBlock == 2
RenderVoices == 2
RenderCalls == 4

\* the settings made in this exploration: <<param_id, value>>
RenderSettings == {<<PARAM_RPM, 120000>>, <<PARAM_GAIN, 500>>, <<PARAM_BIO_TYPE, 2000>>}

InitRender == Constructed(SampleRates, 0 .. MaxBlock, 1 .. RenderVoices)

NextRender ==
    \/ ncalls < RenderCalls /\ AddVoice
    \/ ncalls < RenderCalls /\ \E voice_id \in 0 .. RenderVoices - 1 : RemoveVoice(voice_id)
    \/ /\ ncalls < RenderCalls
       /\ nsets < MaxSets
       /\ \E voice_id \in 0 .. RenderVoices - 1, setting \in RenderSettings :
             SetParam(voice_id, setting[1], setting[2])
    \/ ncalls < RenderCalls /\ \E frames \in 0 .. MaxBlock + 1 : Process(frames)
    \/ ProcessFrame

SpecRender == InitRender /\ [][NextRender]_vars

\* the voice v after n calls of sample
RECURSIVE Ticked(_, _, _)
Ticked(v, sr, n) == IF n = 0 THEN v ELSE Voice_sample(Ticked(v, sr, n - 1), sr).st

\* the sum over the slots 0 .. m-1 of the sample each voice of vs gives at its
\* k-th tick, counted from 0
RECURSIVE FrameSum(_, _, _, _)
FrameSum(vs, sr, k, m) ==
    IF m = 0 THEN 0
    ELSE FAdd(FrameSum(vs, sr, k, m - 1), Voice_sample(Ticked(vs[m - 1], sr, k), sr).out)

\* C5: an inactive voice gives the sample 0 and is left as it was by it; over
\* a process call the voices that were inactive at its start keep their whole
\* state, and when no voice was active every sample produced is 0.
C5_InactiveFrozen ==
    /\ \A i \in DOMAIN voices :
          ~voices[i].active =>
              Voice_sample(voices[i], sample_rate) = [st |-> voices[i], out |-> 0]
    /\ call.op = "process" =>
          /\ \A i \in DOMAIN voices :
                ~entry.voices[i].active => voices[i] = entry.voices[i]
          /\ (\A i \in DOMAIN voices : ~entry.voices[i].active) =>
                \A k \in 0 .. frame - 1 : output[k] = 0

\* process rendered a block of two frames or more over a released voice that
\* had been ticked while it was active
C5_Witness ==
    /\ call.op = "process"
    /\ pc = "idle"
    /\ last_frames >= 2
    /\ \E i \in DOMAIN voices :
          /\ ~entry.voices[i].active
          /\ ~Fresh(entry.voices[i])
          /\ voices[i] = entry.voices[i]

\* C6: an add_voice that returns a slot leaves in it a voice equal to a freshly
\* constructed one in every sub-state and parameter, whatever was done to the
\* slot before: engine phase and current_rpm 0, cavitation filters 0, envelopes
\* 0, mode Chirp with the crossfade complete, default gain and mixes.
C6_AddVoiceResets ==
    [][(AddVoiceStep /\ call'.ret >= 0) =>
           LET v == voices'[call'.ret]
           IN  /\ Fresh(v)
               /\ v.rng = next_seed'
               /\ v.engine.phase = 0 /\ v.engine.current_rpm = 0
               /\ v.cav.lp_noise = 0 /\ v.cav.shaped_noise = 0
               /\ v.bio.chirp.env = 0 /\ v.bio.snapping_shrimp.env = 0
               /\ v.bio.dolphin_whistle.env = 0 /\ v.bio.echolocation_click.env = 0
               /\ v.bio.humpback_song.env = 0
               /\ v.bio.bio_type = Chirp /\ v.bio.xfade = 1000
               /\ v.gain = 1000 /\ v.engine_mix = 1000
               /\ v.cav_mix = 550 /\ v.bio_mix = 250]_vars

\* add_voice gave out again a slot whose earlier voice process had ticked
C6_Witness ==
    /\ call.op = "add_voice"
    /\ call.ret = 0
    /\ last_frames > 0
    /\ entry.voices[0].active
    /\ entry.voices[0].rng # voices[0].rng
    /\ Fresh(voices[0])

\* C9: process(frames) renders n = min(frames, max_frames) frames: output_len
\* is n, the output keeps its max_frames cells and only the cells 0 .. n-1 are
\* written, cell k with tanh of the sum of every voice's k-th sample, and
\* every voice has been sampled n times; process(0) leaves every voice as it
\* was.
C9_ProcessRenders ==
    call.op = "process" =>
        /\ last_frames = IF call.frames <= max_frames THEN call.frames ELSE max_frames
        /\ frame <= last_frames
        /\ pc = "idle" => frame = last_frames
        /\ DOMAIN output = 0 .. max_frames - 1
        /\ \A k \in DOMAIN output :
              output[k] = IF k < frame
                          THEN FTanh(FrameSum(entry.voices, sample_rate, k, NumVoices))
                          ELSE entry.output[k]
        /\ \A i \in DOMAIN voices :
              voices[i] = Ticked(entry.voices[i], sample_rate, frame)
        /\ call.frames = 0 => voices = entry.voices

\* process was asked for more frames than the block holds and rendered the
\* whole block, ticking an active voice once per frame
C9_Witness ==
    /\ call.op = "process"
    /\ pc = "idle"
    /\ call.frames > max_frames
    /\ last_frames = max_frames
    /\ max_frames >= 2
    /\ \E i \in DOMAIN voices :
          /\ entry.voices[i].active
          /\ voices[i] # Ticked(entry.voices[i], sample_rate, 1)
          /\ voices[i] = Ticked(entry.voices[i], sample_rate, 2)

\* ------------------------------------------------------------------ crossfade
\* bound of the exploration of the mode crossfade of one voice, rendered one
\* frame a call
XfadeCalls == 6

XfadeRates == {200000}
XfadeModes == {0, 1000, 2000}

InitXfade == Constructed(XfadeRates, {1}, {1})

NextXfade ==
    \/ ncalls < XfadeCalls /\ AddVoice
    \/ ncalls < XfadeCalls /\ \E value \in XfadeModes : SetParam(0, PARAM_BIO_TYPE, value)
    \/ ncalls < XfadeCalls /\ Process(1)
    \/ ProcessFrame

SpecXfade == InitXfade /\ [][NextXfade]_vars

\* the weight BioState::tick gives the output of the generator of mode in the
\* state b: 1 - xfade for prev_type and xfade for bio_type while xfade < 1,
\* then 1 for bio_type
Weight(b, mode) ==
    IF FLt(b.xfade, 1000)
    THEN (IF mode = b.prev_type THEN FSub(1000, b.xfade) ELSE 0)
         + (IF mode = b.bio_type THEN b.xfade ELSE 0)
    ELSE IF mode = b.bio_type THEN 1000 ELSE 0

\* C10: between two consecutive samples of an active voice the weight of each
\* generator changes by one crossfade step at most, whatever mode switches are
\* made between them: entry holds the voice as the last sample found it, the
\* voice as it stands is what the next sample finds.
C10_CrossfadeContinuous ==
    (pc = "idle" /\ last_frames = 1 /\ entry.voices[0].active /\ voices[0].active) =>
        \A mode \in BioTypes :
            Abs(Weight(voices[0].bio, mode) - Weight(entry.voices[0].bio, mode))
                <= XfadeStep(sample_rate)

\* ------------------------------------------------------------------ engine stall
\* bounds of the exploration of one voice's engine run up and left to decay
EngineBlock == 12
EngineCalls == 6

EngineRates == {1000}
EngineRpms == {0, 6000, PosInf}

InitEngine == Constructed(EngineRates, {EngineBlock}, {1})

NextEngine ==
    \/ ncalls < EngineCalls /\ AddVoice
    \/ ncalls < EngineCalls /\ \E value \in EngineRpms : SetParam(0, PARAM_RPM, value)
    \/ ncalls < EngineCalls /\ \E frames \in {1, EngineBlock} : Process(frames)
    \/ ProcessFrame

SpecEngine == InitEngine /\ [][NextEngine]_vars

\* the steps that are one iteration of the frame loop
ProcessFrameStep == frame' = frame + 1

\* C11: an engine tick whose smoothed current_rpm is below 0.05 gives the
\* sample 0 and leaves the phase as it was; with target_rpm 0 and current_rpm
\* below 0.05, a tick leaves current_rpm below 0.05, so the engine stays
\* silent and its phase stays put until target_rpm is raised.
C11_EngineStall ==
    /\ [](\A i \in DOMAIN voices :
             LET r == EngineTick(voices[i].engine, sample_rate)
             IN  FLt(r.st.current_rpm, 50) =>
                     r.out = 0 /\ r.st.phase = voices[i].engine.phase)
    /\ [][ProcessFrameStep =>
             \A i \in DOMAIN voices :
                 (/\ voices[i].active
                  /\ voices[i].engine.target_rpm = 0
                  /\ FLt(voices[i].engine.current_rpm, 50)) =>
                     /\ EngineTick(voices[i].engine, sample_rate).out = 0
                     /\ voices'[i].engine.phase = voices[i].engine.phase
                     /\ FLt(voices'[i].engine.current_rpm, 50)]_vars

\* an engine that ran, its phase moved, and was then left at target 0 has
\* been ticked while stalled: current_rpm is below 0.05 and still above 0
C11_Witness ==
    /\ pc = "idle"
    /\ call.op = "process"
    /\ voices[0].active
    /\ voices[0].engine.target_rpm = 0
    /\ entry.voices[0].engine.target_rpm = 0
    /\ FLt(entry.voices[0].engine.current_rpm, 50)
    /\ voices[0].engine.current_rpm > 0
    /\ voices[0].engine.current_rpm < entry.voices[0].engine.current_rpm
    /\ voices[0].engine.phase > 0
    /\ voices[0].engine.phase = entry.voices[0].engine.phase

\* ------------------------------------------------------------------ the analyser
\* bounds of the exploration
MaxFreq == 2

\* the shapes of the input buffer: a carrier whose amplitude beats every 16
\* samples, and silence
DemonShapes == {"beat", "silence"}
DemonSample(shape, i) ==
    IF shape = "beat"
    THEN (IF i % 2 = 0 THEN 1 ELSE -1) * (IF (i \div 8) % 2 = 0 THEN 1000 ELSE 200)
    ELSE 0

\* input[i] of the call in progress, i from 0
DemonInputAt(i) == DemonSample(demon.shape, i)

\* the locals d, decim_sr and n_decim of the call in progress
DemonD == DemonDecimation(demon.sample_rate, demon.t.decim_target)
DemonDecimSr == FDiv(demon.sample_rate, FromInt(DemonD))
DemonNDecim == demon.samples \div DemonD

\* vec![0.0f32; max_freq + 1]
DemonZeros(max_freq) == [f \in 0 .. max_freq |-> 0]

\* compute_demon_spectrum is called: it returns at once or enters the sum of
\* the samples
ComputeDemonSpectrum(shape, n, sr, max_freq_hz, lo, hi, hp, target) ==
    /\ demon.pc = "idle"
    /\ demon' = [NoSpectrum EXCEPT
                    !.pc = IF DemonRejects(n, sr) THEN "idle" ELSE "mean",
                    !.shape = shape, !.samples = n, !.sample_rate = sr,
                    !.max_freq_hz = max_freq_hz, !.tunables = <<lo, hi, hp, target>>,
                    !.t = IF DemonRejects(n, sr) THEN NoSpectrum.t
                          ELSE DemonTunables(lo, hi, hp, target),
                    !.spectrum = DemonZeros(max_freq_hz)]
    /\ UNCHANGED <<graph, pc, frame, call, entry, ncalls, nsets, seeds>>

\* one sample is added to the sum; after the last the mean is taken, and the
\* call returns if fewer than 8 decimated samples would be left
DemonMean ==
    /\ demon.pc = "mean"
    /\ demon' = IF demon.i + 1 < demon.samples
                THEN [demon EXCEPT !.i = demon.i + 1,
                                   !.sum = FAdd(demon.sum, DemonInputAt(demon.i))]
                ELSE [demon EXCEPT
                         !.i = 0,
                         !.sum = FAdd(demon.sum, DemonInputAt(demon.i)),
                         !.mean_raw = FDiv(FAdd(demon.sum, DemonInputAt(demon.i)),
                                           FromInt(demon.samples)),
                         !.pc = IF DemonNDecim < 8 THEN "idle" ELSE "envelope"]
    /\ UNCHANGED <<graph, pc, frame, call, entry, ncalls, nsets, seeds>>

\* one pass of the band-pass, rectify and decimate loop
DemonEnvelope ==
    /\ demon.pc = "envelope"
    /\ demon' = [demon EXCEPT
                    !.q = DemonPass(demon.q, FSub(DemonInputAt(demon.i), demon.mean_raw),
                                    DemonAlpha(demon.t.band_low,
                                               FDiv(1000, demon.sample_rate)),
                                    DemonLowAlpha(demon.t.band_high,
                                                  FDiv(1000, demon.sample_rate)),
                                    DemonD, demon.i + 1),
                    !.i = IF demon.i + 1 < demon.samples THEN demon.i + 1 ELSE 0,
                    !.pc = IF demon.i + 1 < demon.samples THEN "envelope" ELSE "highpass"]
    /\ UNCHANGED <<graph, pc, frame, call, entry, ncalls, nsets, seeds>>

\* one pass of the envelope high-pass loop; before the first, env_hp_prev_x is
\* decim_env[0]; after the last the bins follow, if any
DemonHighPass ==
    /\ demon.pc = "highpass"
    /\ demon' = [demon EXCEPT
                    !.h = DemonHighPassStep(
                              IF demon.i = 0
                              THEN [demon.h EXCEPT !.env_hp_prev_x = demon.q.decim_env[1]]
                              ELSE demon.h,
                              demon.q.decim_env[demon.i + 1],
                              DemonAlpha(demon.t.env_hp, FDiv(1000, DemonDecimSr))),
                    !.i = IF demon.i + 1 < DemonNDecim THEN demon.i + 1 ELSE 0,
                    !.f = 1,
                    !.pc = IF demon.i + 1 < DemonNDecim THEN "highpass"
                           ELSE IF demon.max_freq_hz >= 1 THEN "bins" ELSE "idle"]
    /\ UNCHANGED <<graph, pc, frame, call, entry, ncalls, nsets, seeds>>

\* the sums of bin f with sample i added
DemonSums ==
    DemonAccumulate(demon.s,
                    FMul(demon.h.signal[demon.i + 1],
                         DemonHann(demon.i, FromInt(IF DemonNDecim > 1
                                                     THEN DemonNDecim - 1 ELSE 1))),
                    FMul(FDiv(FMul(2 * PI, FromInt(demon.f)), DemonDecimSr),
                         FromInt(demon.i)))

\* one pass of the inner loop of the bins; after the last sample the bin is
\* stored, and after the last bin the call returns
DemonBin ==
    /\ demon.pc = "bins"
    /\ demon' = IF demon.i + 1 < DemonNDecim
                THEN [demon EXCEPT !.s = DemonSums, !.i = demon.i + 1]
                ELSE [demon EXCEPT
                         !.s = NoSpectrum.s,
                         !.i = 0,
                         !.spectrum[demon.f] = DemonNorm(DemonSums, DemonNDecim),
                         !.f = demon.f + 1,
                         !.pc = IF demon.f < demon.max_freq_hz THEN "bins" ELSE "idle"]
    /\ UNCHANGED <<graph, pc, frame, call, entry, ncalls, nsets, seeds>>

DemonLengths == {0, 63, 64, 72}
DemonRates == {NaN, NegInf, -1000, 0, 100000, 800000, 900000, PosInf}
DemonLows == {NaN, -5000, 500, 20000, PosInf}
DemonHighs == {NaN, 1000, 300000, NegInf}
DemonHps == {NaN, 50, 100, 5000, PosInf}
DemonTargets == {NaN, 99000, 100000, 2000000, NegInf}

InitDemon == Constructed(SampleRates, {1}, {1})

\* no call of the analyser has been made
DemonUncalled == demon.shape = "none"

\* the analyser is called once, with the band varied, or with the envelope
\* filter and the decimation varied; the call has no state to leave behind
NextDemon ==
    \/ /\ DemonUncalled
       /\ \E shape \in DemonShapes, n \in DemonLengths, sr \in DemonRates,
             max_freq_hz \in 0 .. MaxFreq, lo \in DemonLows, hi \in DemonHighs :
             ComputeDemonSpectrum(shape, n, sr, max_freq_hz, lo, hi, 1000, 500000)
    \/ /\ DemonUncalled
       /\ \E n \in DemonLengths, sr \in DemonRates, max_freq_hz \in 0 .. MaxFreq,
             hp \in DemonHps, target \in DemonTargets :
             ComputeDemonSpectrum("beat", n, sr, max_freq_hz, 20000, 1800000, hp, target)
    \/ DemonMean
    \/ DemonEnvelope
    \/ DemonHighPass
    \/ DemonBin

SpecDemon == InitDemon /\ [][NextDemon]_vars

\* the call of the analyser has returned
DemonReturned == demon.pc = "idle" /\ ~DemonUncalled

\* the decimated length floor(len / max(1, floor(sample_rate / target))) of the
\* call, target the decimated-rate target the call uses
DemonDecimatedLength ==
    demon.samples \div
        Max(1, AsU32(FDiv(demon.sample_rate,
                          DemonTunables(demon.tunables[1], demon.tunables[2],
                                        demon.tunables[3], demon.tunables[4]).decim_target)))

DemonAccepted == ~DemonUncalled /\ ~DemonRejects(demon.samples, demon.sample_rate)

\* the tunables of the call as used, in the order of the arguments
DemonUsed == <<demon.t.band_low, demon.t.band_high, demon.t.env_hp, demon.t.decim_target>>

\* the defaults of the tunables, in the order of the arguments
DemonDefaults == <<20000, 1800000, 1000, 500000>>

\* C13, as stated: each tunable is used as given or replaced by its default
\* (20, 1800, 1, 500 Hz), and a non-finite one is replaced by its default.
C13_TunableDefaults ==
    DemonAccepted =>
        \A k \in 1 .. 4 :
            /\ DemonUsed[k] \in {demon.tunables[k], DemonDefaults[k]}
            /\ ~IsFinite(demon.tunables[k]) => DemonUsed[k] = DemonDefaults[k]

\* the floors of the tunables, in the order of the arguments: 1 Hz, 1 Hz above
\* the band low as used, 0.1 Hz, 100 Hz
DemonFloors == <<1000, demon.t.band_low + 1000, 100, 100000>>

\* C13, amended: a non-finite tunable is replaced by its default (20, 1800, 1,
\* 500 Hz); a finite one below its floor (1 Hz, the band low as used plus 1 Hz,
\* 0.1 Hz, 100 Hz) is raised to the floor, and any other finite one is used as
\* given.
C13_TunableFloors ==
    DemonAccepted =>
        \A k \in 1 .. 4 :
            DemonUsed[k] = IF demon.tunables[k] \in {NaN, PosInf, NegInf}
                           THEN DemonDefaults[k]
                           ELSE IF demon.tunables[k] < DemonFloors[k]
                                THEN DemonFloors[k]
                                ELSE demon.tunables[k]

\* a call with a band of 0.5 Hz to 1 Hz used 1 Hz to 2 Hz, not 20 Hz to 1800 Hz
C13_Witness ==
    /\ DemonAccepted
    /\ demon.tunables = <<500, 1000, 1000, 500000>>
    /\ DemonUsed = <<1000, 2000, 1000, 500000>>

\* ------------------------------------------------------------------ the seeds
\* bounds of the exploration
SeedCalls == 7
SeedVoices == 2

InitSeed == Constructed(SampleRates, {1}, 1 .. SeedVoices)

NextSeed ==
    \/ ncalls < SeedCalls /\ AddVoice
    \/ ncalls < SeedCalls /\ \E voice_id \in 0 .. SeedVoices - 1 : RemoveVoice(voice_id)
    \/ ncalls < SeedCalls /\ Process(1)
    \/ ProcessFrame

SpecSeed == InitSeed /\ [][NextSeed]_vars

\* x doubled n times, modulo 2^32
RECURSIVE Doubled(_, _)
Doubled(x, n) == IF n = 0 THEN x ELSE Doubled(WrappingAdd(x, x), n - 1)

\* C14: a successful add_voice advances the seed counter by 0x9e3779b9 modulo
\* 2^32 and seeds the voice's RNG with the new value; nothing else moves the
\* counter; the seeds handed out are pairwise distinct, and 2^31 times the
\* step is not 0 modulo 2^32, so that the counter does not come back to a
\* value in fewer than 2^32 allocations.
C14_SeedsDistinct ==
    /\ [](/\ \A j, k \in DOMAIN seeds : j # k => seeds[j] # seeds[k]
          /\ SEED_STEP = <<40503, 31161>>
          /\ Doubled(SEED_STEP, 31) # <<0, 0>>
          /\ Doubled(SEED_STEP, 32) = <<0, 0>>)
    /\ [][IF AddVoiceStep /\ call'.ret >= 0
          THEN /\ next_seed' = WrappingAdd(next_seed, SEED_STEP)
               /\ voices'[call'.ret].rng = next_seed'
               /\ seeds' = Append(seeds, next_seed')
          ELSE next_seed' = next_seed /\ seeds' = seeds]_vars

\* three seeds were handed out by a pool of one voice, with a failed
\* allocation, releases and a render in between, and the counter wrapped
C14_Witness ==
    /\ NumVoices = 1
    /\ Len(seeds) = 3
    /\ ncalls = SeedCalls
    /\ \E k \in DOMAIN seeds : k > 1 /\ seeds[k][1] < seeds[k - 1][1]
    /\ voices[0].active
    /\ voices[0].rng = seeds[3]

\* ------------------------------------------------------------------ the modes
\* bounds of the exploration
ModeCalls == 5
ModeBlock == 2

ModeRates == {200000}
ModeValues == {NaN, 0, 1000, 2400, 3000, 4000, 5000, PosInf}

InitMode == Constructed(ModeRates, {ModeBlock}, {1})

NextMode ==
    \/ ncalls < ModeCalls /\ AddVoice
    \/ ncalls < ModeCalls /\ \E value \in ModeValues : SetParam(0, PARAM_BIO_TYPE, value)
    \/ ncalls < ModeCalls /\ \E frames \in 1 .. ModeBlock : Process(frames)
    \/ ProcessFrame

SpecMode == InitMode /\ [][NextMode]_vars

\* C15: set_type(next), reached by set_param on PARAM_BIO_TYPE, changes
\* nothing when next is the active mode; otherwise the previous mode becomes
\* the old active mode, the active mode becomes next, the crossfade becomes 0,
\* and nothing else in the voice changes.
C15_SetType ==
    [][\A value \in ModeValues :
           (SetParam(0, PARAM_BIO_TYPE, value) /\ call'.ret = TRUE) =>
               IF from_param(value) = voices[0].bio.bio_type
               THEN voices' = voices
               ELSE voices' = [voices EXCEPT ![0].bio.prev_type = voices[0].bio.bio_type,
                                             ![0].bio.bio_type = from_param(value),
                                             ![0].bio.xfade = 0]]_vars

\* a second switch was made before the crossfade of the first had ended
C15_Witness ==
    /\ call.op = "set_param"
    /\ call.ret = TRUE
    /\ voices[0].bio.prev_type = WhaleMoan
    /\ voices[0].bio.bio_type = HumpbackSong
    /\ voices[0].bio.xfade = 0
    /\ voices[0].bio.whale_moan # WhaleMoanState_new
    /\ voices[0].bio.chirp # ChirpState_new

\* the RNG state and the rpm the bio tick of voice v is entered with: the
\* engine and the cavitation have ticked before it
BioEntry(v) ==
    [rng |-> CavTick(v.cav, EngineTick(v.engine, sample_rate).st.current_rpm,
                     EngineTick(v.engine, sample_rate).st.phase, v.rng).rng,
     rpm |-> EngineTick(v.engine, sample_rate).st.current_rpm]

\* the generators of b after exactly the modes first and then second were
\* ticked, once each and in that order, r the result of first; and the RNG
GeneratorsAfterTwo(b, first, second, rpm, r) ==
    [gen |-> [m \in BioTypes |->
                 IF m = first THEN r.st
                 ELSE IF m = second
                 THEN GeneratorTick(b, second, sample_rate, rpm, r.rng).st
                 ELSE Generator(b, m)],
     rng |-> GeneratorTick(b, second, sample_rate, rpm, r.rng).rng]

\* the generators of b after exactly the mode only was ticked, once; and the RNG
GeneratorsAfterOne(b, only, r) ==
    [gen |-> [m \in BioTypes |-> IF m = only THEN r.st ELSE Generator(b, m)],
     rng |-> r.rng]

\* the generators of voice v after the tick the code is claimed to make
GeneratorsTicked(v, e) ==
    IF FLt(v.bio.xfade, 1000)
    THEN GeneratorsAfterTwo(v.bio, v.bio.prev_type, v.bio.bio_type, e.rpm,
                            GeneratorTick(v.bio, v.bio.prev_type, sample_rate, e.rpm, e.rng))
    ELSE GeneratorsAfterOne(v.bio, v.bio.bio_type,
                            GeneratorTick(v.bio, v.bio.bio_type, sample_rate, e.rpm, e.rng))

\* C16: on a tick of an active voice with crossfade < 1 exactly the generators
\* of the previous and of the active mode are ticked, the previous first, each
\* once; with crossfade = 1 exactly the generator of the active mode is; the
\* other generators are left as they were.
C16_GeneratorsTicked ==
    [][ProcessFrameStep =>
           \A i \in DOMAIN voices :
               voices[i].active =>
                   /\ [m \in BioTypes |-> Generator(voices'[i].bio, m)]
                          = GeneratorsTicked(voices[i], BioEntry(voices[i])).gen
                   /\ voices'[i].rng = GeneratorsTicked(voices[i], BioEntry(voices[i])).rng]_vars

\* a one-frame render ticked a crossfading voice: the previous and the active
\* generator moved, a third one that had run before did not
C16_Witness ==
    /\ pc = "idle"
    /\ call.op = "process"
    /\ call.frames = 1
    /\ voices[0].active
    /\ entry.voices[0].bio.xfade < 1000
    /\ entry.voices[0].bio.prev_type = WhaleMoan
    /\ entry.voices[0].bio.bio_type = HumpbackSong
    /\ voices[0].bio.whale_moan # entry.voices[0].bio.whale_moan
    /\ voices[0].bio.humpback_song # entry.voices[0].bio.humpback_song
    /\ voices[0].bio.chirp # ChirpState_new
    /\ voices[0].bio.chirp = entry.voices[0].bio.chirp

\* ------------------------------------------------------------------ the crossfade window
\* ceil(0.015 * sample_rate), the ticks a crossfade is meant to last
XfadeWindow(sr) == (FMul(sr, 15) + Scale - 1) \div Scale

\* the crossfade of every voice is 1, or fewer than n steps above 0
XfadeWithin(n) ==
    \A i \in DOMAIN voices :
        \/ voices[i].bio.xfade = 1000
        \/ \E k \in 0 .. n - 1 : voices[i].bio.xfade = k * XfadeStep(sample_rate)

\* what a step does to the crossfade of every voice: a tick of an active voice
\* adds one step, capped at 1; anything else leaves it, but for an effective
\* mode switch, which resets it to 0, and an allocation, which sets it to 1
XfadeMoves ==
    \A i \in DOMAIN voices :
        IF ProcessFrameStep /\ voices[i].active
        THEN voices'[i].bio.xfade =
                 Min(voices[i].bio.xfade + XfadeStep(sample_rate), 1000)
        ELSE \/ voices'[i].bio.xfade = voices[i].bio.xfade
             \/ /\ SetParamStep
                /\ voices'[i].bio.bio_type # voices[i].bio.bio_type
                /\ voices'[i].bio.xfade = 0
             \/ AddVoiceStep /\ voices'[i].bio.xfade = 1000

TickedModes(b) ==
    IF FLt(b.xfade, 1000) THEN {b.prev_type, b.bio_type} ELSE {b.bio_type}

\* C18: the six generator states persist across mode switches: a set_param
\* step changes none of them, and the state of a generator of a voice changes
\* only on a tick of the voice in which that generator is ticked (or when
\* add_voice builds a new voice in the slot), so that a mode switched back to
\* resumes from the state its generator was left in.
C18_GeneratorsPersist ==
    [][\A i \in DOMAIN voices : \A m \in BioTypes :
           Generator(voices'[i].bio, m) # Generator(voices[i].bio, m) =>
               \/ /\ ProcessFrameStep
                  /\ voices[i].active
                  /\ m \in TickedModes(voices[i].bio)
               \/ AddVoiceStep /\ call'.ret = i]_vars

\* the voice was switched from Chirp to WhaleMoan and back, and Chirp's
\* generator is as the last tick left it, not as new
C18_Witness ==
    /\ call.op = "set_param"
    /\ call.ret = TRUE
    /\ voices[0].bio.bio_type = Chirp
    /\ voices[0].bio.prev_type = WhaleMoan
    /\ voices[0].bio.xfade = 0
    /\ voices[0].bio.chirp # ChirpState_new
    /\ voices[0].bio.whale_moan # WhaleMoanState_new

\* ------------------------------------------------------------------ the events
\* bounds of the exploration of one voice rendered in long blocks
EventBlock == 160
EventCalls == 4

EventRates == {100000, 4000000}
EventValues == {1000, 3000, 4000, 5000}

InitEvent == Constructed(EventRates, {EventBlock}, {1})

NextEvent ==
    \/ ncalls < EventCalls /\ AddVoice
    \/ ncalls < EventCalls /\ \E value \in EventValues : SetParam(0, PARAM_BIO_TYPE, value)
    \/ ncalls < EventCalls /\ Process(EventBlock)
    \/ ProcessFrame

SpecEvent == InitEvent /\ [][NextEvent]_vars

\* the generators with the countdown samples_to_next and a trigger at 0
EventModes == {Chirp, SnappingShrimp, DolphinWhistle, EcholocationClick}

\* the RNG state the generator of mode m of voice v is entered with on a tick, e
\* the RNG and the rpm the bio tick is entered with
TickRng(v, e, m) ==
    IF FLt(v.bio.xfade, 1000) /\ m = v.bio.bio_type
    THEN GeneratorTick(v.bio, v.bio.prev_type, sample_rate, e.rpm, e.rng).rng
    ELSE e.rng

\* the generator s of mode m triggered and then scheduled: [st, rng]
TriggeredThenScheduled(m, s, rpm, bio_rate, rng) ==
    IF m = Chirp
    THEN ChirpScheduleNext(ChirpTriggerClick(s, rpm, rng), sample_rate, rpm, bio_rate)
    ELSE IF m = SnappingShrimp
    THEN ShrimpScheduleNext(ShrimpTriggerSnap(s, sample_rate, rng), sample_rate, bio_rate)
    ELSE IF m = DolphinWhistle
    THEN DolphinScheduleNext(DolphinTriggerWhistle(s, rng, bio_rate), sample_rate, bio_rate)
    ELSE EchoScheduleNext(EchoTriggerClick(s, sample_rate, bio_rate, rng), sample_rate,
                          bio_rate)

\* the rest of the tick of the generator of mode m, after its scheduler left
\* a = [st, rng]
EventVoice(m, a, bio_rate) ==
    IF m = Chirp THEN ChirpVoice(a, sample_rate)
    ELSE IF m = SnappingShrimp THEN ShrimpVoice(a)
    ELSE IF m = DolphinWhistle THEN DolphinVoice(a, sample_rate, bio_rate)
    ELSE EchoVoice(a, sample_rate)

\* the generator s of mode m after a tick that follows the protocol
EventTicked(m, s, rpm, bio_rate, rng) ==
    IF s.samples_to_next = 0
    THEN EventVoice(m, TriggeredThenScheduled(m, s, rpm, bio_rate, rng), bio_rate).st
    ELSE EventVoice(m, [st |-> [s EXCEPT !.samples_to_next = s.samples_to_next - 1],
                        rng |-> rng], bio_rate).st

\* C19: the generators of Chirp, SnappingShrimp, DolphinWhistle and
\* EcholocationClick follow one protocol: a tick entered with the countdown
\* samples_to_next at 0 triggers an event and then schedules the countdown,
\* in that order; any other tick takes 1 off the countdown and triggers
\* nothing; the countdown is never below 0; a new generator starts at 0, so
\* that its first tick triggers.
C19_EventScheduler ==
    /\ [](\A i \in DOMAIN voices : \A m \in EventModes :
             /\ Generator(voices[i].bio, m).samples_to_next >= 0
             /\ Generator(BioState_new, m).samples_to_next = 0)
    /\ [][ProcessFrameStep =>
             \A i \in DOMAIN voices : \A m \in EventModes :
                 (voices[i].active /\ m \in TickedModes(voices[i].bio)) =>
                     /\ Generator(voices'[i].bio, m)
                            = EventTicked(m, Generator(voices[i].bio, m),
                                          BioEntry(voices[i]).rpm, voices[i].bio.bio_rate,
                                          TickRng(voices[i], BioEntry(voices[i]), m))
                     /\ Generator(voices[i].bio, m).samples_to_next > 0 =>
                            Generator(voices'[i].bio, m).samples_to_next
                                = Generator(voices[i].bio, m).samples_to_next - 1]_vars

\* inside a render the dolphin whistle's countdown has run down to 0 again:
\* the next tick triggers the second whistle
C19_Witness ==
    /\ pc = "process"
    /\ frame > 1
    /\ voices[0].active
    /\ voices[0].bio.bio_type = DolphinWhistle
    /\ voices[0].bio.xfade = 1000
    /\ voices[0].bio.dolphin_whistle.samples_to_next = 0
    /\ voices[0].bio.dolphin_whistle.env < EnvScale
    /\ voices[0].bio.dolphin_whistle.env > 0

\* ------------------------------------------------------------------ the envelopes
\* the generators with an envelope env
EnvModes == EventModes \cup {HumpbackSong}

\* a tick of the generator s of mode m triggers an event
Triggers(m, s) ==
    IF m = HumpbackSong
    THEN s.unit_samples_left = 0 /\ s.samples_to_next = 0
    ELSE s.samples_to_next = 0

\* the generator s of mode m is at rest: its tick returns 0 and leaves env
AtRest(m, s) ==
    IF m = HumpbackSong THEN s.unit_samples_left = 0 /\ s.samples_to_next > 0
    ELSE IF m = SnappingShrimp
    THEN s.samples_to_next > 0 /\ s.burst_left = 0 /\ s.env < EnvFloor
    ELSE IF m = EcholocationClick THEN FALSE
    ELSE s.samples_to_next > 0 /\ s.env <= EnvFloor

\* the envelopes are in [0, 1]
EnvInRange ==
    \A i \in DOMAIN voices : \A m \in EnvModes :
        /\ Generator(voices[i].bio, m).env >= 0
        /\ Generator(voices[i].bio, m).env <= EnvScale

\* on a tick without a trigger the envelope of no generator among modes rises
EnvFalls(modes) ==
    ProcessFrameStep =>
        \A i \in DOMAIN voices : \A m \in modes :
            (/\ voices[i].active
             /\ m \in TickedModes(voices[i].bio)
             /\ ~Triggers(m, Generator(voices[i].bio, m))) =>
                Generator(voices'[i].bio, m).env <= Generator(voices[i].bio, m).env

PhaseBlock == 12
PhaseCalls == 4

PhaseRates == {8000000}
PhaseRpms == {0, 300000, 480000000, PosInf}
PhaseBlades == {1000, 12000}

InitPhase == Constructed(PhaseRates, {PhaseBlock}, {1})

NextPhase ==
    \/ ncalls < PhaseCalls /\ AddVoice
    \/ ncalls < PhaseCalls /\ \E value \in PhaseRpms : SetParam(0, PARAM_RPM, value)
    \/ ncalls < PhaseCalls /\ \E value \in PhaseBlades : SetParam(0, PARAM_BLADES, value)
    \/ ncalls < PhaseCalls /\ Process(PhaseBlock)
    \/ ProcessFrame

SpecPhase == InitPhase /\ [][NextPhase]_vars

\* C21: the engine phase of every voice is at least 0 and below 2*pi in every
\* reachable state, whatever target rpm >= 0 and blade count in [1, 12]
\* set_param stored and however many ticks were made.
C21_PhaseInRange ==
    \A i \in DOMAIN voices :
        /\ FGe(voices[i].engine.phase, 0)
        /\ FLt(voices[i].engine.phase, TWO_PI)

\* ------------------------------------------------------------------ the cavitation gate
\* bounds of the exploration of one voice's shaft run up past 1 rpm and back
CavBlock == 2
CavCalls == 5

CavRates == {8000000}
CavRpms == {0, 101000, 300000}

InitCav == Constructed(CavRates, {CavBlock}, {1})

NextCav ==
    \/ ncalls < CavCalls /\ AddVoice
    \/ ncalls < CavCalls /\ \E value \in CavRpms : SetParam(0, PARAM_RPM, value)
    \/ ncalls < CavCalls /\ \E frames \in 1 .. CavBlock : Process(frames)
    \/ ProcessFrame

SpecCav == InitCav /\ [][NextCav]_vars

\* C22: on every sample of an active voice whose engine, ticked for this
\* sample, has current_rpm below 1.0, the cavitation tick leaves both filter
\* accumulators at 0, returns 0 and hands the voice's RNG on undrawn, so the
\* RNG after the sample is what the bio tick makes of the RNG before it; at
\* 1.0 rpm and above the cavitation tick draws once, so the bio tick starts
\* from the RNG one xorshift32 step on.
C22_CavitationGate ==
    [][ProcessFrameStep =>
         \A i \in DOMAIN voices :
             voices[i].active =>
                 IF FLt(voices'[i].engine.current_rpm, 1000)
                 THEN /\ voices'[i].cav = [lp_noise |-> 0, shaped_noise |-> 0]
                      /\ CavTick(voices[i].cav, voices'[i].engine.current_rpm,
                                 voices'[i].engine.phase, voices[i].rng).out = 0
                      /\ CavTick(voices[i].cav, voices'[i].engine.current_rpm,
                                 voices'[i].engine.phase, voices[i].rng).rng = voices[i].rng
                      /\ voices'[i].rng =
                             BioTick(voices[i].bio, sample_rate,
                                     voices'[i].engine.current_rpm, voices[i].rng).rng
                 ELSE /\ FGe(voices'[i].engine.current_rpm, 1000)
                      /\ CavTick(voices[i].cav, voices'[i].engine.current_rpm,
                                 voices'[i].engine.phase, voices[i].rng).rng
                             = xorshift32(voices[i].rng)
                      /\ voices'[i].cav =
                             CavTick(voices[i].cav, voices'[i].engine.current_rpm,
                                     voices'[i].engine.phase, voices[i].rng).st
                      /\ voices'[i].rng =
                             BioTick(voices[i].bio, sample_rate,
                                     voices'[i].engine.current_rpm,
                                     xorshift32(voices[i].rng)).rng]_vars

\* a voice whose cavitation filter held noise was ticked with the shaft below
\* 1 rpm and still turning: the gate cleared the filter
C22_Witness ==
    /\ pc = "idle"
    /\ call.op = "process"
    /\ last_frames = 1
    /\ voices[0].active
    /\ entry.voices[0].cav.lp_noise # 0
    /\ entry.voices[0].cav.shaped_noise # 0
    /\ voices[0].engine.current_rpm > 50
    /\ FLt(voices[0].engine.current_rpm, 1000)
    /\ voices[0].cav = [lp_noise |-> 0, shaped_noise |-> 0]

\* ------------------------------------------------------------------ two modes in a crossfade
\* C23: in every reachable state of every voice a crossfade below 1 has a
\* previous mode other than the active one; so a crossfading tick of an
\* active voice ticks two different generators, each once: the previous
\* mode's and the active mode's generator are both one tick on from the state
\* the sample found them in.
C23_CrossfadeDistinct ==
    /\ [](\A i \in DOMAIN voices :
             FLt(voices[i].bio.xfade, 1000) =>
                 voices[i].bio.prev_type # voices[i].bio.bio_type)
    /\ [][ProcessFrameStep =>
             \A i \in DOMAIN voices :
                 (voices[i].active /\ FLt(voices[i].bio.xfade, 1000)) =>
                     /\ Generator(voices'[i].bio, voices[i].bio.prev_type)
                            = GeneratorTick(voices[i].bio, voices[i].bio.prev_type, sample_rate,
                                            BioEntry(voices[i]).rpm, BioEntry(voices[i]).rng).st
                     /\ Generator(voices'[i].bio, voices[i].bio.bio_type)
                            = GeneratorTick(voices[i].bio, voices[i].bio.bio_type, sample_rate,
                                            BioEntry(voices[i]).rpm,
                                            GeneratorTick(voices[i].bio, voices[i].bio.prev_type,
                                                          sample_rate, BioEntry(voices[i]).rpm,
                                                          BioEntry(voices[i]).rng).rng).st]_vars

\* a voice switched to the snapping shrimp and, one sample into that
\* crossfade, back to the chirp, was ticked again: it is crossfading from the
\* shrimp to the chirp
C23_Witness ==
    /\ pc = "idle"
    /\ call.op = "process"
    /\ nsets = 2
    /\ voices[0].active
    /\ voices[0].bio.prev_type = SnappingShrimp
    /\ voices[0].bio.bio_type = Chirp
    /\ voices[0].bio.xfade > 0
    /\ voices[0].bio.xfade < 1000
    /\ voices[0].bio.snapping_shrimp # SnappingShrimpState_new

\* ------------------------------------------------------------------ the seed counter's wrap
\* bounds of the exploration of a pool that has allocated and released before
WrapCalls == 5
WrapVoices == 2

\* n >> 1 for a u32
Shr1(n) == <<n[1] \div 2, (n[1] % 2) * (Half \div 2) + n[2] \div 2>>

\* x after n times `x = x.wrapping_add(step)`, n a u32, by binary expansion of n
RECURSIVE AddedTimes(_, _, _)
AddedTimes(x, step, n) ==
    IF n = <<0, 0>> THEN x
    ELSE AddedTimes(IF n[2] % 2 = 1 THEN WrappingAdd(x, step) ELSE x,
                    WrappingAdd(step, step), Shr1(n))

\* the pool DspGraph::new(sr, frames, max_voices) once add_voice() -> 0 and
\* remove_voice(0) were called n times in turn, n a u32: the counter is n
\* steps on, and slot 0 holds the last voice built, released; call, ncalls,
\* nsets and seeds record the calls that follow
Cycled(sr, frames, max_voices, n) ==
    /\ sample_rate = sr
    /\ max_frames = Max(frames, 1)
    /\ last_frames = 0
    /\ next_seed = AddedTimes(SEED0, SEED_STEP, n)
    /\ voices = [i \in 0 .. Max(max_voices, 1) - 1 |->
                    IF i = 0 /\ n # <<0, 0>>
                    THEN [Voice_new(AddedTimes(SEED0, SEED_STEP, n)) EXCEPT !.active = FALSE]
                    ELSE [Voice_new(<<0, 0>>) EXCEPT !.active = FALSE]]
    /\ output = [i \in 0 .. Max(frames, 1) - 1 |-> 0]
    /\ pc = "idle"
    /\ frame = 0
    /\ call = IF n = <<0, 0>>
              THEN [op |-> "new", voice_id |-> 0, param_id |-> 0, frames |-> 0, ret |-> 0]
              ELSE [op |-> "remove_voice", voice_id |-> 0, param_id |-> 0, frames |-> 0,
                    ret |-> TRUE]
    /\ entry = [voices |-> voices, output |-> output]
    /\ ncalls = 0
    /\ nsets = 0
    /\ demon = NoSpectrum
    /\ seeds = <<>>

\* the numbers of allocate-and-release cycles a pool is taken up after: none,
\* one, and 2395571017 = 36553 * 65536 + 33609
WrapCycles == {<<0, 0>>, <<0, 1>>, <<36553, 33609>>}

InitWrap ==
    \E max_voices \in 1 .. WrapVoices, n \in WrapCycles : Cycled(8000000, 1, max_voices, n)

NextWrap ==
    \/ ncalls < WrapCalls /\ AddVoice
    \/ ncalls < WrapCalls /\ \E voice_id \in 0 .. WrapVoices - 1 : RemoveVoice(voice_id)
    \/ ncalls < WrapCalls /\ SetParam(0, PARAM_RPM, 300000)
    \/ ncalls < WrapCalls /\ Process(1)
    \/ ProcessFrame

SpecWrap == InitWrap /\ [][NextWrap]_vars

\* C24: the RNG state of an active voice is never 0: add_voice never seeds a
\* voice with 0, and no draw takes a non-zero state to 0.
C24_RngNonZero ==
    \A i \in DOMAIN voices : voices[i].active => voices[i].rng # <<0, 0>>
====
